---- MODULE Spec2Model ----
(***************************************************************************)
(* A model of the quantcapital event-driven trading core: the event engine *)
(* (central queue, dispatcher, per-handler queues and workers), the order  *)
(* life cycle, the portfolio/risk manager with its account, the simulated  *)
(* execution handler and the backtest driver.                               *)
(*                                                                         *)
(* Money is counted in cents (0.01 yuan) and prices in cents per share, so *)
(* that every amount the modelled runs compute is an integer.              *)
(***************************************************************************)
EXTENDS Integers, Sequences, FiniteSets, TLC

(***************************************************************************)
(* Bounds of the model.                                                    *)
(***************************************************************************)
\* number of events the external producers of SpecBus publish
MaxEvents == 4
\* capacity given to the central queue of SpecBus (queue_size argument)
BusQueueSize == 2
\* capacity given to the queue of the slow handler of SpecBus
SlowQueueSize == 1
\* capacity given to the queues of the other handlers of SpecBus
FastQueueSize == 2
\* number of signal events, and of fill events, the client of SpecTrade
\* publishes
MaxSignals == 3
MaxFills == 3
\* the same for the client of SpecPortfolio
FewSignals == 1
FewFills == 1
\* number of order events a client publishes
MaxRelays == 1
\* number of market events the client of SpecBacktest publishes
MaxMarkets == 2
\* last day of the backtest (end_date)
MaxDays == 4
\* events the client of SpecPortfolio, and that of SpecTrade, leaves unhandled
\* before it publishes more
MaxInFlight == 2
TradeInFlight == 1
\* number of calls of cancel_order
MaxCancels == 1
\* number of signal events, and of fill events, the client of SpecRisk publishes
RiskSignals == 2
RiskFills == 1
\* number of fill events the client of SpecStack publishes
StackFills == 2
\* SpecStrategy: the events its client publishes, and the activate() and
\* deactivate() calls
StratMarkets == 2
StratSignals == 1
StratFills == 1
StratInFlight == 2
MaxToggles == 2
\* SpecSnapshot: the fills applied and the quantity of one
MaxSnapFills == 3
MaxSnapQuantity == 2
\* SpecRegister: the calls of register and unregister
MaxRegCalls == 2
\* SpecPosition: the size of a quantity change and the number of calls
MaxQuantityChange == 3
MaxPositionCalls == 3
\* SpecCross: the bars of the flat run and of the rise that follows it
FlatBars == 20
RisingBars == 5
\* SpecTimer: the number of threads a Timer starts
MaxTimerThreads == 3
\* SpecData: the last day with a bar, and the largest count of
\* get_latest_bars
MaxDataDay == 6
MaxBarCount == 2
\* SpecOrder: the largest order quantity and the number of fill_order calls
MaxOrderQuantity == 3
MaxFillCalls == 4
\* number of market and of signal events the client of SpecRun publishes
RunMarkets == 1
RunSignals == 1
\* number of signal events the client of SpecValidate publishes
ValidateSignals == 2
\* number of events the producers of SpecLifecycle publish
MaxLifeEvents == 2
\* worker threads a handler may be given before start() is no longer called
MaxThreads == 2

VARIABLES
    handlers,     \* EventEngine._handlers: event type -> sequence of handlers
    queue,        \* EventEngine._queue, oldest first
    qcap,         \* maxsize of EventEngine._queue
    stats,        \* EventEngine._stats
    engineRunning,\* EventEngine._running
    dispatcher,   \* number of live dispatcher threads
    cur,          \* the dispatcher inside _dispatch_event: event and loop index
    running,      \* EventHandler.running, per handler
    nthreads,     \* live worker threads, per handler
    hq,           \* EventHandler.queue, per handler, oldest first
    hcap,         \* EventHandler.queue_size, per handler
    handling,     \* events inside handle_event, per handler
    delivered,    \* history: events passed to handle_event, per handler
    accepted,     \* history: events EventEngine.put accepted, in order
    lastPut,      \* history: the event and the result of the latest put
    nput,         \* history: number of calls of EventEngine.put
    cfg,          \* the configuration of portfolio manager and executor
    initial_capital, \* Account.initial_capital
    cash,         \* Account.cash
    frozen_cash,  \* Account.frozen_cash
    positions,    \* Account.positions: symbol -> Position (or none held)
    orders,       \* every Order created; order_id is the index (Account.orders)
    fills,        \* Account.fills
    total_commission,   \* Account.total_commission
    total_realized_pnl, \* Account.total_realized_pnl
    trades,       \* Account.trades
    recent_signals,     \* PortfolioRiskManager.recent_signals
    active_orders,      \* ExecutionHandler.active_orders (order ids)
    execStage,    \* per order, where execute_order stands and its Fill
    nsignals,     \* history: number of signal events the client published
    published,    \* history: the order and fill events the client published
    lastCancel,   \* history: argument and result of the latest cancel_order
    ncancel,      \* history: number of calls of cancel_order
    budget,       \* what the client of the engine will do at most
    current_time, \* DataHandler.current_time, 0 while it is None
    current_date, \* current_date of _run_backtest_loop
    driverPc,     \* where _run_backtest_loop stands
    lastRead,     \* history, per strategy: the day of the market event it
                  \* handled last and the newest bar get_latest_bars gave it
    nmarket,      \* history: number of market events the client published
    stopIdx,      \* EventEngine.stop: 0 before the call, then the position of
                  \* its loop over the registrations
    polling,      \* per thread name, the threads that were inside queue.get
                  \* when their running flag was cleared
    atStop,       \* history, per handler: its queue when stop() cleared its flag
    raised,       \* history, per handler: the events whose handle_event raised
    backtest,     \* BacktestEngine: start_date, end_date, universe, the
                  \* result of run() and the handlers _stop_components stopped
    unitOrder,    \* an Order of its own: the object, and as history the
                  \* latest fill_order call and the object before it
    query,        \* a call of BacktestDataHandler.get_bars, get_latest_bar or
                  \* get_latest_bars: its position, locals and result
    timer,        \* a Timer: _running, _stop_event, its arguments, the
                  \* threads it has started and the thread that calls
                  \* start() and stop()
    strategies,   \* StrategyManager.strategies: per strategy id is_active,
                  \* and as history its activate() and deactivate() calls and
                  \* what became of the market events it handled
    position,     \* a Position on which update_position is called, with
                  \* the position before the last call, the call's
                  \* arguments and the quantities and costs of the calls
    snap,         \* an Account's positions dict while update_position runs
                  \* in the portfolio worker and a strategy worker reads it:
                  \* the dict, where each thread is, and what the strategy
                  \* last observed
    stopCall,     \* where a call of EventEngine.stop stands after its loop
                  \* over the handlers, when the liveness test and the put
                  \* of the sentinel are taken as two steps
    regs,         \* history: the calls of register and unregister made
                  \* after construction, and the registrations removed
    restart,      \* history: whether start() was called again after stop()
                  \* returned, and how many events put had accepted by then
    feed          \* the daily closes of X a data source holds, how many of
                  \* them have been fed as market events, and as history the
                  \* bars at which the ENTRY strategy found a signal, the
                  \* bars whose signal event was published and the orders

busVars == <<handlers, queue, qcap, stats, engineRunning, dispatcher, cur,
             running, nthreads, hq, hcap, handling, delivered, accepted,
             lastPut, nput>>

acctVars == <<cfg, initial_capital, cash, frozen_cash, positions, orders,
              fills, total_commission, total_realized_pnl, trades,
              recent_signals, active_orders, execStage, nsignals, published, lastCancel,
              ncancel, budget>>

drvVars == <<current_time, current_date, driverPc, lastRead, nmarket>>

lifeVars == <<stopIdx, polling, atStop, raised>>

\* the objects that only the unit specifications exercise
\* the entity objects exercised on their own
entityVars == <<position, snap, stopCall, regs, restart>>

unitObjects == <<unitOrder, query, timer, feed, entityVars>>

unitRest == <<unitObjects, strategies>>

unitVars == <<backtest, unitRest>>

restVars == <<drvVars, lifeVars, unitVars>>

nonBusVars == <<acctVars, restVars>>

vars == <<busVars, nonBusVars>>

(***************************************************************************)
(* Events.  One record shape for the five event classes; a field an event  *)
(* class does not carry holds its default.                                  *)
(***************************************************************************)
EventTypes == {"market", "signal", "order", "fill", "timer"}

NoEvent == [type |-> "none", id |-> 0, sym |-> "", sid |-> "", dir |-> "",
            price |-> 0, oid |-> 0, qty |-> 0, comm |-> 0, day |-> 0,
            strength |-> 0]

PlainEvent(t, i) == [NoEvent EXCEPT !.type = t, !.id = i]

(***************************************************************************)
(* queue.Queue                                                             *)
(***************************************************************************)
QueueFull(q, cap) == Len(q) >= cap

\* put_nowait on a queue that has room
QueueAppendFront(q, e) == <<e>> \o q
QueueAppend(q, e) == Append(q, e)

(***************************************************************************)
(* EventEngine.put                                                         *)
(***************************************************************************)
PutAccepts(q, cap) == ~QueueFull(q, cap)

PutQueueNoCheck(q, cap, e) == QueueAppend(q, e)
PutQueue(q, cap, e) == IF PutAccepts(q, cap) THEN QueueAppend(q, e) ELSE q

PutStats(q, cap, s) ==
    IF PutAccepts(q, cap) THEN s
    ELSE [s EXCEPT !.events_dropped = @ + 1]

\* the whole of put(e), as the step of whichever thread calls it
EnginePut(e) ==
    /\ queue' = PutQueue(queue, qcap, e)
    /\ stats' = PutStats(queue, qcap, stats)
    /\ accepted' = IF PutAccepts(queue, qcap) THEN Append(accepted, e) ELSE accepted
    /\ lastPut' = [ev |-> e, ret |-> PutAccepts(queue, qcap)]
    /\ nput' = nput + 1

(***************************************************************************)
(* EventHandler.start and EventEngine.start                                *)
(***************************************************************************)
\* the worker threads of a handler after start(): a running handler returns
StartedThreadsNoGuard(isRunning, n) == n + 1
StartedThreads(isRunning, n) == IF isRunning THEN n ELSE n + 1

\* every (type, handler) registration, in the order start() walks them
RECURSIVE Flatten(_)
Flatten(ss) == IF ss = <<>> THEN <<>> ELSE Head(ss) \o Flatten(Tail(ss))

TypeOrder == <<"market", "signal", "order", "fill", "timer">>

Registrations == Flatten([i \in 1..Len(TypeOrder) |-> handlers[TypeOrder[i]]])

\* handler.start() for each handler of the list, one after the other
RECURSIVE StartEach(_, _, _)
StartEach(hs, run, n) ==
    IF hs = <<>> THEN [run |-> run, n |-> n]
    ELSE LET h == Head(hs)
         IN  StartEach(Tail(hs),
                       [run EXCEPT ![h] = TRUE],
                       [n EXCEPT ![h] = StartedThreads(run[h], n[h])])

EngineStart ==
    /\ ~engineRunning
    /\ engineRunning' = TRUE
    /\ dispatcher' = dispatcher + 1
    /\ LET r == StartEach(Registrations, running, nthreads)
       IN  /\ running' = r.run
           /\ nthreads' = r.n
    /\ UNCHANGED nonBusVars
    /\ UNCHANGED <<handlers, queue, qcap, stats, cur, hq, hcap, handling,
                   delivered, accepted, lastPut, nput>>

(***************************************************************************)
(* EventEngine._run and _dispatch_event, one handler of the loop per step  *)
(***************************************************************************)
\* the name of the dispatcher thread
EngineThread == "EventEngine"

Idle == [busy |-> FALSE, ev |-> NoEvent, idx |-> 0]

\* event = self._queue.get(); _dispatch_event(event) up to the for loop
DispatchGet ==
    /\ engineRunning
    /\ dispatcher > 0
    /\ ~cur.busy
    /\ queue # <<>>
    /\ queue' = Tail(queue)
    /\ cur' = IF handlers[Head(queue).type] = <<>>
              THEN Idle
              ELSE [busy |-> TRUE, ev |-> Head(queue), idx |-> 1]
    /\ UNCHANGED nonBusVars
    /\ UNCHANGED <<handlers, qcap, stats, engineRunning, dispatcher, running,
                   nthreads, hq, hcap, handling, delivered, accepted, lastPut,
                   nput>>

\* EventHandler.put_event
PutEventAccepts(h) == ~QueueFull(hq[h], hcap[h])

\* the loop body for a handler whose put_event raises: the loop is left
DispatchPutAbort ==
    /\ cur.busy
    /\ cur.idx <= Len(handlers[cur.ev.type])
    /\ LET h == handlers[cur.ev.type][cur.idx]
       IN  IF PutEventAccepts(h)
           THEN /\ hq' = [hq EXCEPT ![h] = QueueAppend(@, cur.ev)]
                /\ cur' = [cur EXCEPT !.idx = @ + 1]
                /\ stats' = stats
           ELSE /\ hq' = hq
                /\ cur' = Idle
                /\ stats' = [stats EXCEPT !.events_dropped = @ + 1]
    /\ UNCHANGED nonBusVars
    /\ UNCHANGED <<handlers, queue, qcap, engineRunning, dispatcher, running,
                   nthreads, hcap, handling, delivered, accepted, lastPut, nput>>

\* the loop body of _dispatch_event for the handler at cur.idx
DispatchPut ==
    /\ cur.busy
    /\ cur.idx <= Len(handlers[cur.ev.type])
    /\ LET h == handlers[cur.ev.type][cur.idx]
       IN  IF PutEventAccepts(h)
           THEN /\ hq' = [hq EXCEPT ![h] = QueueAppend(@, cur.ev)]
                /\ stats' = stats
           ELSE /\ hq' = hq
                /\ stats' = [stats EXCEPT !.events_dropped = @ + 1]
    /\ cur' = [cur EXCEPT !.idx = @ + 1]
    /\ UNCHANGED nonBusVars
    /\ UNCHANGED <<handlers, queue, qcap, engineRunning, dispatcher, running,
                   nthreads, hcap, handling, delivered, accepted, lastPut, nput>>

\* after the loop: events_dispatched += 1, back to _run
DispatchDone ==
    /\ cur.busy
    /\ cur.idx > Len(handlers[cur.ev.type])
    /\ stats' = [stats EXCEPT !.events_dispatched = @ + 1]
    /\ cur' = Idle
    /\ UNCHANGED nonBusVars
    /\ UNCHANGED <<handlers, queue, qcap, engineRunning, dispatcher, running,
                   nthreads, hq, hcap, handling, delivered, accepted, lastPut,
                   nput>>

(***************************************************************************)
(* EventHandler._run                                                       *)
(***************************************************************************)
\* event = self.queue.get(); handle_event(event) is entered
WorkerGet(h) ==
    /\ running[h]
    /\ Len(handling[h]) < nthreads[h]
    /\ hq[h] # <<>>
    /\ hq' = [hq EXCEPT ![h] = Tail(@)]
    /\ handling' = [handling EXCEPT ![h] = Append(@, Head(hq[h]))]
    /\ delivered' = [delivered EXCEPT ![h] = Append(@, Head(hq[h]))]
    /\ UNCHANGED nonBusVars
    /\ UNCHANGED <<handlers, queue, qcap, stats, engineRunning, dispatcher,
                   cur, running, nthreads, hcap, accepted, lastPut, nput>>

\* the remaining callbacks of handler h once callback i has returned
RemoveAt(s, i) == SubSeq(s, 1, i - 1) \o SubSeq(s, i + 1, Len(s))

\* FunctionHandler.handle_event returns; task_done()
FunctionHandlerDone(h) ==
    /\ \E i \in 1..Len(handling[h]) :
          handling' = [handling EXCEPT ![h] = RemoveAt(@, i)]
    /\ UNCHANGED nonBusVars
    /\ UNCHANGED <<handlers, queue, qcap, stats, engineRunning, dispatcher,
                   cur, running, nthreads, hq, hcap, delivered, accepted,
                   lastPut, nput>>

(***************************************************************************)
(* Arithmetic.  The floats of the source are modelled by their exact       *)
(* values: amounts as integers of cents, an average price as a reduced     *)
(* fraction of cents.                                                      *)
(***************************************************************************)
Abs(x) == IF x < 0 THEN -x ELSE x

Max(a, b) == IF a > b THEN a ELSE b

RECURSIVE Gcd(_, _)
Gcd(a, b) == IF b = 0 THEN a ELSE Gcd(b, a % b)

\* the fraction n/d (d > 0) in lowest terms
Rat(n, d) == LET g == Gcd(Abs(n), d) IN [n |-> n \div g, d |-> d \div g]

RatOfInt(k) == [n |-> k, d |-> 1]

(***************************************************************************)
(* Configuration: PortfolioRiskManager.__init__, SimulatedExecutionHandler *)
(* .__init__ and BacktestEngine.__init__.  Percentages in percent, rates   *)
(* in 1/10000, amounts in cents.                                           *)
(***************************************************************************)
DefaultConfig ==
    [initial_capital |-> 100000000,
     max_position_pct |-> 5,
     max_total_position_pct |-> 95,
     min_order_amount |-> 100000,
     default_position_size |-> 1000000,
     slippage |-> 10,
     commission_rate |-> 3,
     min_commission |-> 500]

\* a small account whose configuration lifts both exposure caps
FullConfig ==
    [DefaultConfig EXCEPT !.initial_capital = 1001000,
                          !.max_position_pct = 100,
                          !.max_total_position_pct = 100]

Configs == {DefaultConfig, FullConfig}

\* an order size of 50,000 against a cap of 1% of 1,000,000
CapConfig ==
    [DefaultConfig EXCEPT !.max_position_pct = 1,
                          !.default_position_size = 5000000]

\* an account of 25,000 that may hold 70% of its value in positions
TotalCapConfig ==
    [DefaultConfig EXCEPT !.initial_capital = 2500000,
                          !.max_position_pct = 100,
                          !.max_total_position_pct = 70]

RiskConfigs == {DefaultConfig, CapConfig, TotalCapConfig}

(***************************************************************************)
(* Order                                                                   *)
(***************************************************************************)
OrderStatus == {"PENDING", "SUBMITTED", "PARTIALLY_FILLED", "FILLED",
                "CANCELLED", "REJECTED"}

NewOrder(sym, side, qty, price, sid) ==
    [symbol |-> sym, side |-> side, quantity |-> qty, price |-> price,
     strategy_id |-> sid, status |-> "PENDING", filled_quantity |-> 0,
     total_filled_amount |-> 0]

RemainingQuantity(o) == o.quantity - o.filled_quantity

FillOrderRaisesNoRemaining(o, q) == q <= 0

\* fill_order raises ValueError for these arguments
FillOrderRaises(o, q) == q <= 0 \/ q > RemainingQuantity(o)

\* the order after fill_order(q, p); unchanged when it raises
FillOrder(o, q, p) ==
    IF FillOrderRaises(o, q) THEN o
    ELSE [o EXCEPT !.filled_quantity = @ + q,
                   !.total_filled_amount = @ + q * p,
                   !.status = IF o.filled_quantity + q = o.quantity
                              THEN "FILLED" ELSE "PARTIALLY_FILLED"]

(***************************************************************************)
(* Fill                                                                    *)
(***************************************************************************)
TotalAmount(f) == f.qty * f.price

NetAmount(f) ==
    IF f.dir = "BUY" THEN TotalAmount(f) + f.comm ELSE TotalAmount(f) - f.comm

(***************************************************************************)
(* Position                                                                *)
(***************************************************************************)
NoPosition == [held |-> FALSE, quantity |-> 0, avg_price |-> RatOfInt(0),
               strategy_id |-> ""]

IsEmpty(pos) == pos.quantity = 0

\* update_position taking the price of the last fill as the average price
PositionUpdateLastPrice(pos, change, price) ==
    IF change = 0 THEN pos
    ELSE [pos EXCEPT !.quantity = pos.quantity + change,
                     !.avg_price = RatOfInt(price)]

\* Position.update_position(quantity_change, fill_price)
PositionUpdate(pos, change, price) ==
    IF change = 0 THEN pos
    ELSE LET newq == pos.quantity + change
             same == (pos.quantity >= 0 /\ change > 0)
                        \/ (pos.quantity <= 0 /\ change < 0)
             cost == pos.quantity * pos.avg_price.n
                        + change * price * pos.avg_price.d
             avg  == IF same
                     THEN IF newq # 0
                          THEN Rat(Abs(cost), Abs(newq) * pos.avg_price.d)
                          ELSE pos.avg_price
                     ELSE IF newq * pos.quantity < 0
                          THEN RatOfInt(price)
                          ELSE pos.avg_price
         IN  [pos EXCEPT !.quantity = newq, !.avg_price = avg]

(***************************************************************************)
(* Account                                                                 *)
(***************************************************************************)
Symbols == {"X", "Y"}

AvailableCash == cash - frozen_cash

\* get_position(symbol): None for a symbol without position
PositionOf(sym) == IF sym \in Symbols THEN positions[sym] ELSE NoPosition

\* freeze_cash(amount) returns True
FreezeAccepts(amount) == amount > 0 /\ ~(AvailableCash < amount)

\* frozen_cash after unfreeze_cash(amount)
Unfrozen(amount) == Max(0, frozen_cash - amount)

\* Account.positions after update_position(fill)
PositionsAfter(f) ==
    LET change == IF f.dir = "BUY" THEN f.qty ELSE -f.qty
        old    == positions[f.sym]
        upd    == PositionUpdate(old, change, f.price)
    IN  IF ~old.held
        THEN IF change # 0
             THEN [positions EXCEPT ![f.sym] =
                     [held |-> TRUE, quantity |-> change,
                      avg_price |-> RatOfInt(f.price), strategy_id |-> f.sid]]
             ELSE positions
        ELSE [positions EXCEPT ![f.sym] = IF IsEmpty(upd) THEN NoPosition ELSE upd]

\* Account.cash after update_position(fill)
CashAfter(f) == IF f.dir = "BUY" THEN cash - NetAmount(f) ELSE cash + NetAmount(f)

RatAdd(a, b) == Rat(a.n * b.d + b.n * a.d, a.d * b.d)

Held == {s \in Symbols : positions[s].held}

\* current_prices.get(symbol, pos.avg_price)
PriceOf(prices, s) ==
    IF s \in DOMAIN prices THEN RatOfInt(prices[s]) ELSE positions[s].avg_price

RatScale(k, r) == Rat(k * r.n, r.d)

\* sum of quantity * price, or of abs(quantity) * price, over the symbols S
RECURSIVE MarketValue(_, _, _)
MarketValue(S, prices, absolute) ==
    IF S = {} THEN RatOfInt(0)
    ELSE LET s == CHOOSE y \in S : TRUE
             q == IF absolute THEN Abs(positions[s].quantity)
                  ELSE positions[s].quantity
         IN  RatAdd(RatScale(q, PriceOf(prices, s)),
                    MarketValue(S \ {s}, prices, absolute))

\* get_total_value(current_prices)
TotalValue(prices) == RatAdd(RatOfInt(cash), MarketValue(Held, prices, FALSE))

\* get_position_value(current_prices)
PositionValue(prices) == MarketValue(Held, prices, TRUE)

\* Position.unrealized_pnl(current_price), summed over the symbols S
RECURSIVE UnrealizedSum(_, _)
UnrealizedSum(S, prices) ==
    IF S = {} THEN RatOfInt(0)
    ELSE LET s == CHOOSE y \in S : TRUE
             p == PriceOf(prices, s)
         IN  RatAdd(RatScale(positions[s].quantity,
                             RatAdd(p, RatScale(-1, positions[s].avg_price))),
                    UnrealizedSum(S \ {s}, prices))

\* the sum of quantity * (last_price - avg_price) over the positions held
PositionsUnrealizedPnl(prices) == UnrealizedSum(Held, prices)

\* get_unrealized_pnl(current_prices): its generator iterates over
\* positions.values() and names a variable symbol that it does not bind, so
\* it raises NameError as soon as one position is held
GetUnrealizedPnl(prices) ==
    IF Held = {} THEN [raises |-> FALSE, value |-> RatOfInt(0)]
    ELSE [raises |-> TRUE, value |-> RatOfInt(0)]

\* floor(n * k / D), computed without leaving 32 bits
FloorMulDiv(n, k, D) == (n \div D) * k + ((n % D) * k) \div D

\* l > t * p / 100 for fractions l and t and a percentage p
RatGtPct(l, t, p) == l.n > FloorMulDiv(t.n, p * l.d, 100 * t.d)

(***************************************************************************)
(* Event constructors.  Event declares type, timestamp and data without    *)
(* defaults, and each subclass adds its own required fields; a call that   *)
(* leaves a required field out raises TypeError.                           *)
(***************************************************************************)
EventFields == {"type", "timestamp", "data"}

ClassFields(t) ==
    CASE t = "market" -> {"symbol", "bar_data"}
      [] t = "signal" -> {"strategy_id", "symbol", "direction", "strength",
                          "price", "reason"}
      [] t = "order"  -> {"order"}
      [] t = "fill"   -> {"fill"}
      [] t = "timer"  -> {"timer_id", "interval"}

\* the constructor of event class t called with these keywords accepts them
Constructs(t, given) == (EventFields \cup ClassFields(t)) \subseteq given

\* the keywords the call sites of the repository pass
SendMarketEventArgs == {"timestamp", "data", "symbol", "bar_data"}
SendSignalArgs == {"timestamp", "data", "strategy_id", "symbol", "direction",
                   "strength", "price", "reason"}
SendOrderEventArgs == {"timestamp", "data", "order"}
SendFillEventArgs == {"timestamp", "data", "fill"}

SignalEventOf(i, sid, sym, dir, strength, price) ==
    [NoEvent EXCEPT !.type = "signal", !.id = i, !.sid = sid, !.sym = sym,
                    !.dir = dir, !.strength = strength, !.price = price]

OrderEventOf(i, oid) == [NoEvent EXCEPT !.type = "order", !.id = i, !.oid = oid]

FillEventOf(i, f) ==
    [NoEvent EXCEPT !.type = "fill", !.id = i, !.oid = f.oid, !.sym = f.sym,
                    !.dir = f.dir, !.qty = f.qty, !.price = f.price,
                    !.comm = f.comm, !.sid = f.sid]

(***************************************************************************)
(* PortfolioRiskManager                                                    *)
(***************************************************************************)
Directions == {"BUY", "SELL", "HOLD"}

\* Signal(...) in on_signal raises ValueError
SignalRaises(ev) == ev.dir \notin Directions \/ ev.strength < 0 \/ ev.strength > 100

SignalKey(ev) == <<ev.sym, ev.dir, ev.sid>>

IsDuplicateSignal(ev) == SignalKey(ev) \in recent_signals

\* recent_signals after _record_signal
RecentSignalsLimit == 1000
RecordSignal(ev) ==
    LET added == recent_signals \cup {SignalKey(ev)}
    IN  IF Cardinality(added) > RecentSignalsLimit THEN {} ELSE added

\* position_size_method is 'fixed_amount'
CalculatePositionSize(ev) == cfg.default_position_size

\* the gates of _check_buy_risk without the two exposure caps
CheckBuyRiskNoCaps(ev) ==
    LET amount == CalculatePositionSize(ev)
    IN  /\ ~(PositionOf(ev.sym).held /\ ~IsEmpty(PositionOf(ev.sym)))
        /\ ~(amount < cfg.min_order_amount)
        /\ ~(AvailableCash < amount)

CheckBuyRisk(ev) ==
    LET amount == CalculatePositionSize(ev)
        prices == [s \in {ev.sym} |-> ev.price]
        total  == TotalValue(prices)
    IN  /\ ~(PositionOf(ev.sym).held /\ ~IsEmpty(PositionOf(ev.sym)))
        /\ ~(amount < cfg.min_order_amount)
        /\ ~(AvailableCash < amount)
        /\ ~RatGtPct(RatOfInt(amount), total, cfg.max_position_pct)
        /\ ~RatGtPct(RatAdd(PositionValue(prices), RatOfInt(amount)), total,
                     cfg.max_total_position_pct)

CheckSellRisk(ev) == PositionOf(ev.sym).held /\ ~IsEmpty(PositionOf(ev.sym))

CheckRisk(ev) ==
    CASE ev.dir = "BUY"  -> CheckBuyRisk(ev)
      [] ev.dir = "SELL" -> CheckSellRisk(ev)
      [] OTHER -> TRUE

\* int(order_amount / price / 100) * 100
BuyQuantityNoLot(amount, price) == amount \div price
BuyQuantity(amount, price) == (amount \div (price * 100)) * 100

\* quantity * price * 1.001
RequiredCash(qty, price) == qty * price + (qty * price) \div 1000

\* _signal_to_order: the order, or none; a BUY order freezes its cash
NoOrder == [made |-> FALSE, order |-> NewOrder("", "", 0, 0, ""), freeze |-> 0]

SignalToOrder(ev) ==
    CASE ev.dir = "BUY" ->
           \* a price of 0 raises ZeroDivisionError, which _signal_to_order
           \* catches, and a negative price gives a quantity below 100
           LET qty == IF ev.price <= 0 THEN 0
                      ELSE BuyQuantity(CalculatePositionSize(ev), ev.price)
               req == RequiredCash(qty, ev.price)
           IN  IF qty < 100 \/ ~FreezeAccepts(req) THEN NoOrder
               ELSE [made |-> TRUE,
                     order |-> NewOrder(ev.sym, "BUY", qty, ev.price, ev.sid),
                     freeze |-> req]
      [] ev.dir = "SELL" ->
           \* Order(...) raises ValueError for a price that is not positive
           IF ~(PositionOf(ev.sym).held /\ ~IsEmpty(PositionOf(ev.sym)))
                \/ ev.price <= 0
           THEN NoOrder
           ELSE [made |-> TRUE,
                 order |-> NewOrder(ev.sym, "SELL",
                                    Abs(positions[ev.sym].quantity),
                                    ev.price, ev.sid),
                 freeze |-> 0]
      [] OTHER -> NoOrder

\* where execute_order stands for an order, and the Fill it has built
NoFill == [oid |-> 0, sym |-> "", dir |-> "", qty |-> 0, price |-> 0,
           comm |-> 0, sid |-> ""]

NotExecuting == [pc |-> "none", fill |-> NoFill, raised |-> FALSE]

\* the variables EventEngine.put writes
putVars == <<queue, stats, accepted, lastPut, nput>>

\* handle_event of handler h returns from callback i
Return(h, i) == handling' = [handling EXCEPT ![h] = RemoveAt(@, i)]

\* on_signal, from the Signal constructor to the except clause
OnSignal(i) ==
    /\ i \in 1..Len(handling["portfolio"])
    /\ handling["portfolio"][i].type = "signal"
    /\ LET ev == handling["portfolio"][i]
           r  == SignalToOrder(ev)
       IN  IF SignalRaises(ev) \/ IsDuplicateSignal(ev) \/ ~CheckRisk(ev) \/ ~r.made
           THEN UNCHANGED <<frozen_cash, orders, execStage, recent_signals, putVars>>
           ELSE /\ frozen_cash' = frozen_cash + r.freeze
                /\ orders' = Append(orders, r.order)
                /\ execStage' = Append(execStage, NotExecuting)
                /\ IF Constructs("order", SendOrderEventArgs)
                   THEN /\ EnginePut(OrderEventOf(nput + 1, Len(orders) + 1))
                        /\ recent_signals' = RecordSignal(ev)
                   ELSE UNCHANGED <<recent_signals, putVars>>
    /\ Return("portfolio", i)
    /\ UNCHANGED <<handlers, qcap, engineRunning, dispatcher, cur, running,
                   nthreads, hq, hcap, delivered>>
    /\ UNCHANGED <<cfg, initial_capital, cash, positions, fills,
                   total_commission, total_realized_pnl, trades, active_orders,
                   nsignals, published, lastCancel, ncancel, budget>>
    /\ UNCHANGED restVars

\* on_fill
OnFill(i) ==
    /\ i \in 1..Len(handling["portfolio"])
    /\ handling["portfolio"][i].type = "fill"
    /\ LET f == handling["portfolio"][i]
       IN  /\ positions' = PositionsAfter(f)
           /\ cash' = CashAfter(f)
           /\ total_commission' = total_commission + f.comm
           /\ fills' = Append(fills, f)
           /\ frozen_cash' = IF f.dir = "BUY"
                             THEN Unfrozen(f.qty * f.price + f.comm)
                             ELSE frozen_cash
    /\ Return("portfolio", i)
    /\ UNCHANGED <<handlers, qcap, engineRunning, dispatcher, cur, running,
                   nthreads, hq, hcap, delivered, putVars>>
    /\ UNCHANGED <<cfg, initial_capital, orders, total_realized_pnl, trades,
                   recent_signals, active_orders, execStage, nsignals,
                   published, lastCancel, ncancel, budget>>
    /\ UNCHANGED restVars

(***************************************************************************)
(* SimulatedExecutionHandler                                               *)
(***************************************************************************)
\* round(base_price * (1 + factor), 2) for the factors uniform() can return
RoundDiv(n, d) == (2 * n + d) \div (2 * d)

FillPrices(o) ==
    IF o.side = "BUY"
    THEN o.price .. RoundDiv(o.price * (10000 + cfg.slippage), 10000)
    ELSE RoundDiv(o.price * (10000 - cfg.slippage), 10000) .. o.price

\* max(quantity * price * commission_rate, min_commission)
CalculateCommission(qty, price) ==
    Max((qty * price * cfg.commission_rate) \div 10000, cfg.min_commission)

\* the Fill _simulate_fill builds for order oid at fill price fp
FillOf(oid, fp) ==
    LET o == orders[oid]
    IN  [oid |-> oid, sym |-> o.symbol, dir |-> o.side, qty |-> o.quantity,
         price |-> fp, comm |-> CalculateCommission(o.quantity, fp),
         sid |-> o.strategy_id]

\* execute_order up to the sleep: the order is active and SUBMITTED
ExecSubmit(i) ==
    /\ i \in 1..Len(handling["exec"])
    /\ handling["exec"][i].type = "order"
    /\ LET oid == handling["exec"][i].oid
       IN  /\ execStage[oid].pc = "none"
           /\ active_orders' = active_orders \cup {oid}
           /\ orders' = [orders EXCEPT ![oid].status = "SUBMITTED"]
           /\ execStage' = [execStage EXCEPT ![oid].pc = "submitted"]
    /\ UNCHANGED busVars
    /\ UNCHANGED <<cfg, initial_capital, cash, frozen_cash, positions, fills,
                   total_commission, total_realized_pnl, trades, recent_signals,
                   nsignals, published, lastCancel, ncancel, budget>>
    /\ UNCHANGED restVars

\* _simulate_fill up to order.fill_order
ExecFill(i) ==
    /\ i \in 1..Len(handling["exec"])
    /\ handling["exec"][i].type = "order"
    /\ LET oid == handling["exec"][i].oid
           o   == orders[oid]
       IN  /\ execStage[oid].pc = "submitted"
           /\ \E fp \in FillPrices(o) :
                 /\ orders' = [orders EXCEPT ![oid] = FillOrder(o, o.quantity, fp)]
                 /\ execStage' = [execStage EXCEPT ![oid] =
                       [pc |-> "filled", fill |-> FillOf(oid, fp),
                        raised |-> FillOrderRaises(o, o.quantity)]]
    /\ UNCHANGED busVars
    /\ UNCHANGED <<cfg, initial_capital, cash, frozen_cash, positions, fills,
                   total_commission, total_realized_pnl, trades, recent_signals,
                   active_orders, nsignals, published, lastCancel, ncancel, budget>>
    /\ UNCHANGED restVars

\* the end of _simulate_fill, or the except clause of execute_order
ExecSend(i) ==
    /\ i \in 1..Len(handling["exec"])
    /\ handling["exec"][i].type = "order"
    /\ LET oid == handling["exec"][i].oid
           st  == execStage[oid]
       IN  /\ st.pc = "filled"
           /\ execStage' = [execStage EXCEPT ![oid] = NotExecuting]
           /\ IF ~st.raised /\ Constructs("fill", SendFillEventArgs)
              THEN /\ EnginePut(FillEventOf(nput + 1, st.fill))
                   /\ active_orders' = active_orders \ {oid}
                   /\ orders' = orders
              ELSE /\ orders' = [orders EXCEPT ![oid].status = "REJECTED"]
                   /\ UNCHANGED <<active_orders, putVars>>
    /\ Return("exec", i)
    /\ UNCHANGED <<handlers, qcap, engineRunning, dispatcher, cur, running,
                   nthreads, hq, hcap, delivered>>
    /\ UNCHANGED <<cfg, initial_capital, cash, frozen_cash, positions, fills,
                   total_commission, total_realized_pnl, trades, recent_signals,
                   nsignals, published, lastCancel, ncancel, budget>>
    /\ UNCHANGED restVars

\* cancel_order(oid), called from a thread of the embedding application
CancelOrder(oid) ==
    /\ ncancel < budget.cancels
    /\ oid \in 1..Len(orders)
    /\ ncancel' = ncancel + 1
    /\ IF oid \notin active_orders
          \/ orders[oid].status \in {"FILLED", "CANCELLED", "REJECTED"}
       THEN /\ lastCancel' = [oid |-> oid, ret |-> FALSE]
            /\ UNCHANGED <<orders, active_orders>>
       ELSE /\ lastCancel' = [oid |-> oid, ret |-> TRUE]
            /\ orders' = [orders EXCEPT ![oid].status = "CANCELLED"]
            /\ active_orders' = active_orders \ {oid}
    /\ UNCHANGED busVars
    /\ UNCHANGED <<cfg, initial_capital, cash, frozen_cash, positions, fills,
                   total_commission, total_realized_pnl, trades, recent_signals,
                   execStage, nsignals, published, budget>>
    /\ UNCHANGED restVars

(***************************************************************************)
(* The state after construction: BacktestEngine._initialize_components     *)
(***************************************************************************)
\* the strategies a backtest adds, and the first day of its calendar
Strategies == {"entry"}

\* the strategy ids; the type of a strategy is named by its id
AllStrategies == {"entry", "exit", "stop"}
StartDate == 1

\* no stop() has been called and no handle_event has raised
LifeInit ==
    /\ stopIdx = 0
    /\ polling = [t \in DOMAIN hq \cup {EngineThread} |-> 0]
    /\ atStop = [h \in DOMAIN hq |-> <<>>]
    /\ raised = [h \in DOMAIN hq |-> <<>>]

NoBudget == [signals |-> 0, orders |-> 0, fills |-> 0, cancels |-> 0,
             markets |-> 0, inflight |-> 0, symbols |-> {}, prices |-> {},
             strengths |-> {}, buyers |-> {"entry"}]

\* setup(start_date, end_date, universe) of the backtests of SpecBacktest
DefaultRun == [start_date |-> StartDate, end_date |-> MaxDays,
               universe |-> Symbols, result |-> "none", nstopped |-> 0]

AccountInitRun(c, b, r, pc) ==
    /\ cfg = c
    /\ initial_capital = c.initial_capital
    /\ cash = c.initial_capital
    /\ frozen_cash = 0
    /\ positions = [s \in Symbols |-> NoPosition]
    /\ orders = <<>>
    /\ fills = <<>>
    /\ total_commission = 0
    /\ total_realized_pnl = 0
    /\ trades = <<>>
    /\ recent_signals = {}
    /\ active_orders = {}
    /\ execStage = <<>>
    /\ nsignals = 0
    /\ published = {}
    /\ lastCancel = [oid |-> 0, ret |-> FALSE]
    /\ ncancel = 0
    /\ budget = b
    /\ current_time = 0
    /\ current_date = r.start_date
    /\ driverPc = pc
    /\ lastRead = [s \in AllStrategies |-> [day |-> 0, newest |-> 0]]
    /\ nmarket = 0
    /\ LifeInit
    /\ backtest = r

\* no Order outside the account
NoUnitOrder == [order |-> NoOrder.order, before |-> NoOrder.order,
                calls |-> 0, q |-> 0, p |-> 0, raised |-> FALSE]

\* the objects the unit specifications exercise, left alone
\* no call of the data handler
NoQuery == [pc |-> "idle", kind |-> "none", start_date |-> 0, end_date |-> 0,
            t_end |-> 0, count |-> 0, set_at_call |-> FALSE,
            none |-> FALSE, bars |-> <<>>]

\* Timer.__init__ with repeat = True and no start delay
NoTimer == [running |-> FALSE, stop_event |-> FALSE, repeat |-> TRUE,
            start_delay |-> 0, caller |-> "idle", threads |-> <<>>]

\* no bars
NoFeed == [closes |-> <<>>, fed |-> 0, signals |-> {}, emitted |-> {},
           orders |-> <<>>]

\* no call of Position.update_position
NoPositionCalls ==
    [pos |-> NoPosition, before |-> NoPosition, change |-> 0, price |-> 0,
     calls |-> 0, bought |-> 0, paid |-> 0, buys_only |-> TRUE]

\* no read of the positions, no update_position in progress
NoObservation == [kind |-> "none", keys |-> {}, in_dict |-> FALSE,
                  quantity |-> 0, midway |-> FALSE, before |-> {},
                  after |-> {}, qbefore |-> 0, qafter |-> 0]

NoSnap == [positions |-> [x \in {"X", "Y"} |-> NoPosition],
           wpc |-> "idle", before |-> [x \in {"X", "Y"} |-> NoPosition],
           after |-> [x \in {"X", "Y"} |-> NoPosition], nfills |-> 0,
           rpc |-> "idle", todo |-> {}, started |-> {}, acc |-> {},
           seen |-> NoObservation]

\* no call of register or unregister after construction
NoRegs == [calls |-> 0, removed |-> {}]

\* start() has not been called a second time
NoRestart == [calls |-> 0, accepted |-> 0]

EntityInit ==
    /\ position = NoPositionCalls
    /\ snap = NoSnap
    /\ stopCall = "none"
    /\ regs = NoRegs
    /\ restart = NoRestart

\* BaseStrategy.__init__ with enabled = True
InitialStrategies ==
    [s \in AllStrategies |->
        [is_active |-> TRUE, last |-> "none", toggles |-> 0,
         deactivations |-> 0, calls |-> 0, epoch |-> 0, ignored |-> 0,
         discarded |-> 0, errors |-> 0]]

UnitInit ==
    /\ unitOrder = NoUnitOrder
    /\ query = NoQuery
    /\ timer = NoTimer
    /\ strategies = InitialStrategies
    /\ feed = NoFeed
    /\ EntityInit

AccountInit(c, b) == AccountInitRun(c, b, DefaultRun, "loop") /\ UnitInit

(***************************************************************************)
(* SpecBus: the event engine with two function handlers and external       *)
(* producers.  "slow" subscribes to market events, "fast" to market and    *)
(* signal events; nobody subscribes to timer events.                       *)
(***************************************************************************)
BusHandlers == {"fast", "slow"}

BusObjects ==
    /\ handlers = [t \in EventTypes |->
                     CASE t = "market" -> <<"slow", "fast">>
                       [] t = "signal" -> <<"fast">>
                       [] OTHER -> <<>>]
    /\ queue = <<>>
    /\ qcap = BusQueueSize
    /\ stats = [events_dispatched |-> 0, events_dropped |-> 0,
                dispatch_errors |-> 0]
    /\ engineRunning = FALSE
    /\ dispatcher = 0
    /\ cur = Idle
    /\ running = [h \in BusHandlers |-> FALSE]
    /\ nthreads = [h \in BusHandlers |-> 0]
    /\ hq = [h \in BusHandlers |-> <<>>]
    /\ hcap = [h \in BusHandlers |->
                 IF h = "slow" THEN SlowQueueSize ELSE FastQueueSize]
    /\ handling = [h \in BusHandlers |-> <<>>]
    /\ delivered = [h \in BusHandlers |-> <<>>]
    /\ accepted = <<>>
    /\ lastPut = [ev |-> NoEvent, ret |-> FALSE]
    /\ nput = 0

BusInit == BusObjects /\ AccountInit(DefaultConfig, NoBudget)

\* a producer thread publishes its next event
Produce ==
    /\ nput < MaxEvents
    /\ \E t \in {"market", "signal", "timer"} : EnginePut(PlainEvent(t, nput + 1))
    /\ UNCHANGED nonBusVars
    /\ UNCHANGED <<handlers, qcap, engineRunning, dispatcher, cur, running,
                   nthreads, hq, hcap, handling, delivered>>

BusNext ==
    \/ Produce
    \/ EngineStart
    \/ DispatchGet
    \/ DispatchPut
    \/ DispatchDone
    \/ \E h \in BusHandlers : WorkerGet(h)
    \/ \E h \in BusHandlers : FunctionHandlerDone(h)

SpecBus == BusInit /\ [][BusNext]_vars

(***************************************************************************)
(* SpecLifecycle: the engine of SpecBus with an application thread that    *)
(* calls EventEngine.stop once.  The actions of a raising handler function *)
(* and of stop() come first.                                               *)
(***************************************************************************)
\* the worker threads of a handler after the except clause of _run
ThreadsAfterErrorUncaught(n) == n - 1
ThreadsAfterError(n) == n

\* FunctionHandler.handle_event raises: _run logs, calls handle_error and
\* goes back to the head of its loop
FunctionHandlerRaise(h) ==
    /\ \E i \in 1..Len(handling[h]) :
          /\ handling' = [handling EXCEPT ![h] = RemoveAt(@, i)]
          /\ raised' = [raised EXCEPT ![h] = Append(@, handling[h][i])]
    /\ nthreads' = [nthreads EXCEPT ![h] = ThreadsAfterError(@)]
    /\ UNCHANGED <<handlers, queue, qcap, stats, engineRunning, dispatcher,
                   cur, running, hq, hcap, delivered, accepted, lastPut, nput>>
    /\ UNCHANGED <<acctVars, drvVars, unitVars, stopIdx, polling, atStop>>

\* the worker threads of h that are not inside handle_event
IdleWorkers(h) == nthreads[h] - Len(handling[h])

\* EventEngine.stop up to its loop over the handlers
EngineStop ==
    /\ engineRunning
    /\ stopIdx = 0
    /\ engineRunning' = FALSE
    /\ stopIdx' = 1
    /\ \E k \in 0..(IF cur.busy THEN 0 ELSE dispatcher) :
          polling' = [polling EXCEPT ![EngineThread] = k]
    /\ UNCHANGED <<handlers, queue, qcap, stats, dispatcher, cur, running,
                   nthreads, hq, hcap, handling, delivered, accepted, lastPut,
                   nput>>
    /\ UNCHANGED <<acctVars, drvVars, unitVars, atStop, raised>>

\* handler.stop() for the next registration: the flag is cleared and the
\* caller joins the worker for at most five seconds
StopHandler ==
    /\ stopIdx \in 1..Len(Registrations)
    /\ LET h == Registrations[stopIdx]
       IN  IF running[h]
           THEN /\ running' = [running EXCEPT ![h] = FALSE]
                /\ atStop' = [atStop EXCEPT ![h] = hq[h]]
                /\ \E k \in 0..IdleWorkers(h) :
                      polling' = [polling EXCEPT ![h] = k]
           ELSE UNCHANGED <<running, atStop, polling>>
    /\ stopIdx' = stopIdx + 1
    /\ UNCHANGED <<handlers, queue, qcap, stats, engineRunning, dispatcher,
                   cur, nthreads, hq, hcap, handling, delivered, accepted,
                   lastPut, nput>>
    /\ UNCHANGED <<acctVars, drvVars, unitVars, raised>>

\* the end of EventEngine.stop: self._queue.put(None) while the dispatcher
\* thread is alive, a put that waits for room
StopFinish ==
    /\ stopIdx = Len(Registrations) + 1
    /\ stopIdx' = stopIdx + 1
    /\ IF dispatcher > 0
       THEN /\ ~QueueFull(queue, qcap)
            /\ queue' = QueueAppend(queue, NoEvent)
       ELSE queue' = queue
    /\ UNCHANGED <<handlers, qcap, stats, engineRunning, dispatcher, cur,
                   running, nthreads, hq, hcap, handling, delivered, accepted,
                   lastPut, nput>>
    /\ UNCHANGED <<acctVars, drvVars, unitVars, polling, atStop, raised>>

\* a worker that was inside queue.get when the flag was cleared gets an event
WorkerGetLate(h) ==
    /\ ~running[h]
    /\ polling[h] > 0
    /\ hq[h] # <<>>
    /\ polling' = [polling EXCEPT ![h] = @ - 1]
    /\ hq' = [hq EXCEPT ![h] = Tail(@)]
    /\ handling' = [handling EXCEPT ![h] = Append(@, Head(hq[h]))]
    /\ delivered' = [delivered EXCEPT ![h] = Append(@, Head(hq[h]))]
    /\ UNCHANGED <<handlers, queue, qcap, stats, engineRunning, dispatcher,
                   cur, running, nthreads, hcap, accepted, lastPut, nput>>
    /\ UNCHANGED <<acctVars, drvVars, unitVars, stopIdx, atStop, raised>>

\* while self.running: a worker finds the flag cleared and leaves _run
WorkerExit(h) ==
    /\ ~running[h]
    /\ IdleWorkers(h) > 0
    /\ IdleWorkers(h) > polling[h] \/ hq[h] = <<>>
    /\ nthreads' = [nthreads EXCEPT ![h] = @ - 1]
    /\ polling' = [polling EXCEPT ![h] =
                     IF IdleWorkers(h) > @ THEN @ ELSE @ - 1]
    /\ UNCHANGED <<handlers, queue, qcap, stats, engineRunning, dispatcher,
                   cur, running, hq, hcap, handling, delivered, accepted,
                   lastPut, nput>>
    /\ UNCHANGED <<acctVars, drvVars, unitVars, stopIdx, atStop, raised>>

\* the dispatcher was inside queue.get when _running was cleared and gets
\* an event
DispatchGetLate ==
    /\ ~engineRunning
    /\ polling[EngineThread] > 0
    /\ ~cur.busy
    /\ queue # <<>>
    /\ Head(queue) # NoEvent
    /\ polling' = [polling EXCEPT ![EngineThread] = @ - 1]
    /\ queue' = Tail(queue)
    /\ cur' = IF handlers[Head(queue).type] = <<>>
              THEN Idle
              ELSE [busy |-> TRUE, ev |-> Head(queue), idx |-> 1]
    /\ UNCHANGED <<handlers, qcap, stats, engineRunning, dispatcher, running,
                   nthreads, hq, hcap, handling, delivered, accepted, lastPut,
                   nput>>
    /\ UNCHANGED <<acctVars, drvVars, unitVars, stopIdx, atStop, raised>>

\* if event is None: break
DispatcherBreak ==
    /\ polling[EngineThread] > 0
    /\ ~cur.busy
    /\ queue # <<>>
    /\ Head(queue) = NoEvent
    /\ polling' = [polling EXCEPT ![EngineThread] = @ - 1]
    /\ queue' = Tail(queue)
    /\ dispatcher' = dispatcher - 1
    /\ UNCHANGED <<handlers, qcap, stats, engineRunning, cur, running,
                   nthreads, hq, hcap, handling, delivered, accepted, lastPut,
                   nput>>
    /\ UNCHANGED <<acctVars, drvVars, unitVars, stopIdx, atStop, raised>>

\* while self._running: the dispatcher finds the flag cleared and leaves _run
DispatcherExit ==
    /\ ~engineRunning
    /\ dispatcher > 0
    /\ ~cur.busy
    /\ dispatcher > polling[EngineThread] \/ queue = <<>>
    /\ dispatcher' = dispatcher - 1
    /\ polling' = [polling EXCEPT ![EngineThread] =
                     IF dispatcher > @ THEN @ ELSE @ - 1]
    /\ UNCHANGED <<handlers, queue, qcap, stats, engineRunning, cur, running,
                   nthreads, hq, hcap, handling, delivered, accepted, lastPut,
                   nput>>
    /\ UNCHANGED <<acctVars, drvVars, unitVars, stopIdx, atStop, raised>>

\* the application starts the engine once, before it stops it
LifeStart == stopIdx = 0 /\ EngineStart

\* the producers of SpecFault and SpecLifecycle publish fewer events
LifeProduce == nput < MaxLifeEvents /\ Produce

LifecycleNext ==
    \/ LifeProduce
    \/ LifeStart
    \/ DispatchGet
    \/ DispatchPut
    \/ DispatchDone
    \/ \E h \in BusHandlers : WorkerGet(h)
    \/ \E h \in BusHandlers : FunctionHandlerDone(h)
    \/ EngineStop
    \/ StopHandler
    \/ StopFinish
    \/ \E h \in BusHandlers : WorkerGetLate(h)
    \/ \E h \in BusHandlers : WorkerExit(h)
    \/ DispatchGetLate
    \/ DispatcherBreak
    \/ DispatcherExit

SpecLifecycle == BusInit /\ [][LifecycleNext]_vars

(***************************************************************************)
(* SpecRegister: the engine of SpecBus with an application thread that     *)
(* calls register and unregister while the dispatcher runs.  Neither takes *)
(* a lock; _dispatch_event loops over the list of the event's type itself, *)
(* and the list iterator goes by index.  (The list of a type is deleted    *)
(* when it becomes empty: register for a type whose list was emptied while *)
(* an event of the type is being dispatched is taken after that dispatch.) *)
(***************************************************************************)
registerRest == <<acctVars, drvVars, lifeVars, backtest, unitOrder, query,
                  timer, feed, strategies, position, snap, stopCall, restart>>

IsRegistered(t, h) == \E k \in 1..Len(handlers[t]) : handlers[t][k] = h

\* list.remove(h): the list without the first h
RECURSIVE ListRemove(_, _)
ListRemove(l, h) ==
    IF l = <<>> THEN <<>>
    ELSE IF Head(l) = h THEN Tail(l)
    ELSE <<Head(l)>> \o ListRemove(Tail(l), h)

\* register(event_type, handler) for a handler not yet in the list
Register(t, h) ==
    /\ regs.calls < MaxRegCalls
    /\ ~IsRegistered(t, h)
    /\ ~(cur.busy /\ cur.ev.type = t /\ handlers[t] = <<>>)
    /\ handlers' = [handlers EXCEPT ![t] = Append(@, h)]
    /\ regs' = [regs EXCEPT !.calls = @ + 1]
    /\ UNCHANGED <<queue, qcap, stats, engineRunning, dispatcher, cur, running,
                   nthreads, hq, hcap, handling, delivered, accepted, lastPut,
                   nput>>
    /\ UNCHANGED registerRest

\* unregister(event_type, handler)
Unregister(t, h) ==
    /\ regs.calls < MaxRegCalls
    /\ handlers[t] # <<>>
    /\ handlers' = [handlers EXCEPT ![t] = ListRemove(@, h)]
    /\ regs' = [calls |-> regs.calls + 1,
                removed |-> IF IsRegistered(t, h)
                            THEN regs.removed \cup {<<t, h>>}
                            ELSE regs.removed]
    /\ UNCHANGED <<queue, qcap, stats, engineRunning, dispatcher, cur, running,
                   nthreads, hq, hcap, handling, delivered, accepted, lastPut,
                   nput>>
    /\ UNCHANGED registerRest

RegisterNext ==
    \/ LifeProduce
    \/ EngineStart
    \/ DispatchGet
    \/ DispatchPut
    \/ DispatchDone
    \/ \E h \in BusHandlers : WorkerGet(h)
    \/ \E h \in BusHandlers : FunctionHandlerDone(h)
    \/ \E t \in {"market", "signal"}, h \in BusHandlers : Register(t, h)
    \/ \E t \in {"market", "signal"}, h \in BusHandlers : Unregister(t, h)

SpecRegister == BusInit /\ [][RegisterNext]_vars

(***************************************************************************)
(* SpecStop: the lifecycle with the end of EventEngine.stop in two steps,  *)
(* `if self._thread and self._thread.is_alive()` and then                  *)
(* `self._queue.put(None)`, between which the dispatcher may leave _run.   *)
(* SpecStopFair adds that every thread goes on when it can.                *)
(***************************************************************************)
stopRest == <<acctVars, drvVars, backtest, unitOrder, query, timer, feed,
              strategies, position, snap, regs, restart>>

\* if self._thread and self._thread.is_alive()
StopCheckAlive ==
    /\ stopIdx = Len(Registrations) + 1
    /\ stopCall = "none"
    /\ stopIdx' = stopIdx + 1
    /\ stopCall' = IF dispatcher > 0 THEN "put" ELSE "returned"
    /\ UNCHANGED <<busVars, polling, atStop, raised, stopRest>>

\* self._queue.put(None), which waits for room, and the join of at most
\* five seconds after it
StopPut ==
    /\ stopCall = "put"
    /\ ~QueueFull(queue, qcap)
    /\ queue' = QueueAppend(queue, NoEvent)
    /\ stopCall' = "returned"
    /\ UNCHANGED <<handlers, qcap, stats, engineRunning, dispatcher, cur,
                   running, nthreads, hq, hcap, handling, delivered, accepted,
                   lastPut, nput>>
    /\ UNCHANGED <<lifeVars, stopRest>>

\* the steps of the dispatcher thread
DispatcherSteps ==
    \/ DispatchGet
    \/ DispatchPut
    \/ DispatchDone
    \/ DispatchGetLate
    \/ DispatcherBreak
    \/ DispatcherExit

\* the steps of the workers of handler h
WorkerSteps(h) ==
    \/ WorkerGet(h)
    \/ FunctionHandlerDone(h)
    \/ WorkerGetLate(h)
    \/ WorkerExit(h)

\* the steps of the thread that calls stop()
StopSteps ==
    \/ StopHandler
    \/ StopCheckAlive
    \/ StopPut

StopNext ==
    \/ LifeProduce
    \/ LifeStart
    \/ EngineStop
    \/ StopSteps
    \/ DispatcherSteps
    \/ \E h \in BusHandlers : WorkerSteps(h)

SpecStop == BusInit /\ [][StopNext]_vars

SpecStopFair ==
    /\ SpecStop
    /\ WF_vars(StopSteps)
    /\ WF_vars(DispatcherSteps)
    /\ \A h \in BusHandlers : WF_vars(WorkerSteps(h))

(***************************************************************************)
(* SpecRestart: SpecStop with a second call of EventEngine.start after     *)
(* stop() has returned.  stop() joins the dispatcher and each worker for   *)
(* at most five seconds, and a thread inside queue.get leaves it within    *)
(* one second, so when start() is called again the dispatcher and the idle *)
(* workers of the first start() are gone; a worker that is still inside    *)
(* handle_event is not.  SpecRestartFair adds that every thread goes on    *)
(* when it can.                                                            *)
(***************************************************************************)
restartRest == <<acctVars, drvVars, lifeVars, backtest, unitOrder, query,
                 timer, feed, strategies, position, snap, stopCall, regs>>

\* EventEngine.start, called again after stop() has returned
SecondStart ==
    /\ stopCall = "returned"
    /\ restart.calls = 0
    /\ dispatcher = 0
    /\ \A h \in DOMAIN hq : IdleWorkers(h) = 0
    /\ ~engineRunning
    /\ engineRunning' = TRUE
    /\ dispatcher' = dispatcher + 1
    /\ LET r == StartEach(Registrations, running, nthreads)
       IN  /\ running' = r.run
           /\ nthreads' = r.n
    /\ restart' = [calls |-> 1, accepted |-> Len(accepted)]
    /\ UNCHANGED <<handlers, queue, qcap, stats, cur, hq, hcap, handling,
                   delivered, accepted, lastPut, nput>>
    /\ UNCHANGED restartRest

\* _run of a running engine gets an event that is not None
DispatchGetEvent ==
    /\ queue # <<>>
    /\ Head(queue) # NoEvent
    /\ DispatchGet

\* _run of a running engine gets None: `if event is None: break`
DispatchGetNone ==
    /\ engineRunning
    /\ dispatcher > 0
    /\ ~cur.busy
    /\ queue # <<>>
    /\ Head(queue) = NoEvent
    /\ queue' = Tail(queue)
    /\ dispatcher' = dispatcher - 1
    /\ UNCHANGED <<handlers, qcap, stats, engineRunning, cur, running,
                   nthreads, hq, hcap, handling, delivered, accepted, lastPut,
                   nput>>
    /\ UNCHANGED nonBusVars

\* the steps of the dispatcher threads
RestartDispatcherSteps ==
    \/ DispatchGetEvent
    \/ DispatchGetNone
    \/ DispatchPut
    \/ DispatchDone
    \/ DispatchGetLate
    \/ DispatcherBreak
    \/ DispatcherExit

RestartNext ==
    \/ LifeProduce
    \/ LifeStart
    \/ EngineStop
    \/ StopSteps
    \/ SecondStart
    \/ RestartDispatcherSteps
    \/ \E h \in BusHandlers : WorkerSteps(h)

SpecRestart == BusInit /\ [][RestartNext]_vars

SpecRestartFair ==
    /\ SpecRestart
    /\ WF_vars(StopSteps)
    /\ WF_vars(RestartDispatcherSteps)
    /\ \A h \in BusHandlers : WF_vars(WorkerSteps(h))

(***************************************************************************)
(* SpecFault: the engine of SpecBus with handler functions that may raise. *)
(***************************************************************************)
FaultNext ==
    \/ LifeProduce
    \/ EngineStart
    \/ DispatchGet
    \/ DispatchPut
    \/ DispatchDone
    \/ \E h \in BusHandlers : WorkerGet(h)
    \/ \E h \in BusHandlers : FunctionHandlerDone(h)
    \/ \E h \in BusHandlers : FunctionHandlerRaise(h)

SpecFault == BusInit /\ [][FaultNext]_vars

(***************************************************************************)
(* SpecTrade: the engine with the executor and the portfolio manager       *)
(* registered, and a client of the engine that publishes complete events:  *)
(* signals, the orders of the account, and the fills of those orders.      *)
(***************************************************************************)
DefaultQueueSize == 10000
DefaultHandlerQueueSize == 1000

TradeHandlers == {"exec", "portfolio"}

SignalPrices == {1000}

TradeBudget == [signals |-> MaxSignals, orders |-> MaxRelays,
                fills |-> MaxFills, cancels |-> MaxCancels, markets |-> 0,
                inflight |-> TradeInFlight, symbols |-> {"X"},
                prices |-> SignalPrices, strengths |-> {80},
                buyers |-> {"entry"}]

FewBudget == [TradeBudget EXCEPT !.signals = FewSignals, !.fills = FewFills,
                                 !.inflight = MaxInFlight]

TradeInitWith(b, cs) ==
    /\ handlers = [t \in EventTypes |->
                     CASE t = "order"  -> <<"exec">>
                       [] t = "signal" -> <<"portfolio">>
                       [] t = "fill"   -> <<"portfolio">>
                       [] OTHER -> <<>>]
    /\ queue = <<>>
    /\ qcap = DefaultQueueSize
    /\ stats = [events_dispatched |-> 0, events_dropped |-> 0,
                dispatch_errors |-> 0]
    /\ engineRunning = FALSE
    /\ dispatcher = 0
    /\ cur = Idle
    /\ running = [h \in TradeHandlers |-> FALSE]
    /\ nthreads = [h \in TradeHandlers |-> 0]
    /\ hq = [h \in TradeHandlers |-> <<>>]
    /\ hcap = [h \in TradeHandlers |-> DefaultHandlerQueueSize]
    /\ handling = [h \in TradeHandlers |-> <<>>]
    /\ delivered = [h \in TradeHandlers |-> <<>>]
    /\ accepted = <<>>
    /\ lastPut = [ev |-> NoEvent, ret |-> FALSE]
    /\ nput = 0
    /\ \E c \in cs : AccountInit(c, b)

TradeInit == TradeInitWith(TradeBudget, Configs)

PortfolioInit == TradeInitWith(FewBudget, {DefaultConfig})

\* handler.start(), as _start_components calls it after event_engine.start()
StartHandler(h) ==
    /\ nthreads[h] < MaxThreads
    /\ running' = [running EXCEPT ![h] = TRUE]
    /\ nthreads' = [nthreads EXCEPT ![h] = StartedThreads(running[h], @)]
    /\ UNCHANGED nonBusVars
    /\ UNCHANGED <<handlers, queue, qcap, stats, engineRunning, dispatcher,
                   cur, hq, hcap, handling, delivered, accepted, lastPut, nput>>

RECURSIVE SumLen(_, _)
SumLen(f, S) ==
    IF S = {} THEN 0
    ELSE LET h == CHOOSE x \in S : TRUE IN Len(f[h]) + SumLen(f, S \ {h})

\* events published and not yet handled to the end
InFlight ==
    Len(queue) + (IF cur.busy THEN 1 ELSE 0) + SumLen(hq, DOMAIN hq)
      + SumLen(handling, DOMAIN handling)

ClientReady == InFlight < budget.inflight

\* the client publishes a signal event
ClientSignal ==
    /\ ClientReady
    /\ nsignals < budget.signals
    /\ nsignals' = nsignals + 1
    /\ \E sym \in budget.symbols, dir \in {"BUY", "SELL"},
          p \in budget.prices, st \in budget.strengths,
          buyer \in budget.buyers :
          EnginePut(SignalEventOf(nput + 1,
                                  IF dir = "BUY" THEN buyer ELSE "stop",
                                  sym, dir, st, p))
    /\ UNCHANGED <<handlers, qcap, engineRunning, dispatcher, cur, running,
                   nthreads, hq, hcap, handling, delivered>>
    /\ UNCHANGED <<cfg, initial_capital, cash, frozen_cash, positions, orders,
                   fills, total_commission, total_realized_pnl, trades, recent_signals,
                   active_orders, execStage, published, lastCancel, ncancel, budget>>
    /\ UNCHANGED restVars

\* the client publishes an order of the account in an order event
ClientOrder(oid) ==
    /\ ClientReady
    /\ oid \in 1..Len(orders)
    /\ <<"order", oid>> \notin published
    /\ Cardinality({p \in published : p[1] = "order"}) < budget.orders
    /\ published' = published \cup {<<"order", oid>>}
    /\ EnginePut(OrderEventOf(nput + 1, oid))
    /\ UNCHANGED <<handlers, qcap, engineRunning, dispatcher, cur, running,
                   nthreads, hq, hcap, handling, delivered>>
    /\ UNCHANGED <<cfg, initial_capital, cash, frozen_cash, positions, orders,
                   fills, total_commission, total_realized_pnl, trades, recent_signals,
                   active_orders, execStage, nsignals, lastCancel, ncancel, budget>>
    /\ UNCHANGED restVars

\* the client publishes the fill of an order of the account
ClientFill(oid) ==
    /\ ClientReady
    /\ oid \in 1..Len(orders)
    /\ <<"fill", oid>> \notin published
    /\ Cardinality({p \in published : p[1] = "fill"}) < budget.fills
    /\ published' = published \cup {<<"fill", oid>>}
    /\ \E fp \in FillPrices(orders[oid]) :
          EnginePut(FillEventOf(nput + 1, FillOf(oid, fp)))
    /\ UNCHANGED <<handlers, qcap, engineRunning, dispatcher, cur, running,
                   nthreads, hq, hcap, handling, delivered>>
    /\ UNCHANGED <<cfg, initial_capital, cash, frozen_cash, positions, orders,
                   fills, total_commission, total_realized_pnl, trades, recent_signals,
                   active_orders, execStage, nsignals, lastCancel, ncancel, budget>>
    /\ UNCHANGED restVars

TradeNext ==
    \/ EngineStart
    \/ \E h \in TradeHandlers : StartHandler(h)
    \/ ClientSignal
    \/ \E oid \in 1..Len(orders) : ClientOrder(oid)
    \/ \E oid \in 1..Len(orders) : ClientFill(oid)
    \/ \E oid \in 1..Len(orders) : CancelOrder(oid)
    \/ DispatchGet
    \/ DispatchPut
    \/ DispatchDone
    \/ \E h \in TradeHandlers : WorkerGet(h)
    \/ \E i \in 1..MaxThreads : OnSignal(i)
    \/ \E i \in 1..MaxThreads : OnFill(i)
    \/ \E i \in 1..MaxThreads : ExecSubmit(i)
    \/ \E i \in 1..MaxThreads : ExecFill(i)
    \/ \E i \in 1..MaxThreads : ExecSend(i)

SpecTrade == TradeInit /\ [][TradeNext]_vars

SpecPortfolio == PortfolioInit /\ [][TradeNext]_vars

(***************************************************************************)
(* SpecRisk: the portfolio manager alone behind the engine, with a client  *)
(* that publishes signals for two symbols at several prices and the fills  *)
(* of the account's orders, under configurations whose caps bind.          *)
(***************************************************************************)
RiskPrices == {3000, 20000}

RiskBudget == [NoBudget EXCEPT !.signals = RiskSignals, !.fills = RiskFills,
                               !.inflight = TradeInFlight,
                               !.symbols = Symbols, !.prices = RiskPrices,
                               !.strengths = {80}]

RiskInit == TradeInitWith(RiskBudget, RiskConfigs)

RiskNext ==
    \/ EngineStart
    \/ StartHandler("portfolio")
    \/ ClientSignal
    \/ \E oid \in 1..Len(orders) : ClientFill(oid)
    \/ DispatchGet
    \/ DispatchPut
    \/ DispatchDone
    \/ WorkerGet("portfolio")
    \/ \E i \in 1..MaxThreads : OnSignal(i)
    \/ \E i \in 1..MaxThreads : OnFill(i)

SpecRisk == RiskInit /\ [][RiskNext]_vars

(***************************************************************************)
(* SpecStack: SpecRisk with the BUY signals of two strategies for one      *)
(* symbol at one price, so that a second BUY signal can arrive while the   *)
(* order of the first is unfilled or held.                                 *)
(***************************************************************************)
StackBudget == [RiskBudget EXCEPT !.fills = StackFills, !.symbols = {"X"},
                                  !.prices = {3000},
                                  !.buyers = {"entry", "exit"}]

StackInit == TradeInitWith(StackBudget, {DefaultConfig})

SpecStack == StackInit /\ [][RiskNext]_vars

(***************************************************************************)
(* SpecOrder: one Order and a caller that tries fill_order with arbitrary  *)
(* quantities, the failing ones included.                                  *)
(***************************************************************************)
FillTestPrices == {1000, 1010}

\* the program outside the unit under test: constructed and never started
IdleProgram ==
    BusObjects /\ AccountInitRun(DefaultConfig, NoBudget, DefaultRun, "loop")

OrderInit ==
    /\ IdleProgram
    /\ query = NoQuery
    /\ timer = NoTimer
    /\ strategies = InitialStrategies
    /\ feed = NoFeed
    /\ EntityInit
    /\ \E side \in {"BUY", "SELL"}, qty \in 1..MaxOrderQuantity,
          price \in FillTestPrices :
          unitOrder = [NoUnitOrder EXCEPT
                         !.order = NewOrder("X", side, qty, price, "entry"),
                         !.before = NewOrder("X", side, qty, price, "entry")]

\* order.fill_order(q, p), or order.fill(q, p, commission)
OrderFill ==
    /\ unitOrder.calls < MaxFillCalls
    /\ \E q \in (0 - 1)..(MaxOrderQuantity + 1), p \in FillTestPrices :
          unitOrder' = [order |-> FillOrder(unitOrder.order, q, p),
                        before |-> unitOrder.order,
                        calls |-> unitOrder.calls + 1,
                        q |-> q, p |-> p,
                        raised |-> FillOrderRaises(unitOrder.order, q)]
    /\ UNCHANGED <<busVars, acctVars, drvVars, lifeVars, backtest, query,
                   timer, strategies, feed, entityVars>>

SpecOrder == OrderInit /\ [][OrderFill]_vars

(***************************************************************************)
(* SpecPosition: update_position called on one Position, which starts      *)
(* empty or long or short at a price; prices in cents, the average price   *)
(* as an exact fraction where the code holds a float.                      *)
(***************************************************************************)
PositionPrices == {1000, 1010, 1030}

PositionInit ==
    /\ IdleProgram
    /\ unitOrder = NoUnitOrder
    /\ query = NoQuery
    /\ timer = NoTimer
    /\ strategies = InitialStrategies
    /\ feed = NoFeed
    /\ snap = NoSnap
    /\ stopCall = "none"
    /\ regs = NoRegs
    /\ restart = NoRestart
    /\ \E q \in (0 - MaxQuantityChange)..MaxQuantityChange,
          p \in PositionPrices \cup {0} :
          position = [NoPositionCalls EXCEPT
                        !.pos = [held |-> TRUE, quantity |-> q,
                                 avg_price |-> RatOfInt(p),
                                 strategy_id |-> "entry"],
                        !.buys_only = (q = 0)]

\* position.update_position(quantity_change, fill_price)
CallUpdatePosition ==
    /\ position.calls < MaxPositionCalls
    /\ \E dq \in (0 - MaxQuantityChange)..MaxQuantityChange,
          p \in PositionPrices :
          position' = [pos |-> PositionUpdate(position.pos, dq, p),
                       before |-> position.pos,
                       change |-> dq, price |-> p,
                       calls |-> position.calls + 1,
                       bought |-> position.bought + Max(dq, 0),
                       paid |-> position.paid + Max(dq, 0) * p,
                       buys_only |-> position.buys_only /\ dq > 0]
    /\ UNCHANGED <<busVars, acctVars, drvVars, lifeVars, backtest, unitOrder,
                   query, timer, strategies, feed, snap, stopCall, regs,
                   restart>>

SpecPosition == PositionInit /\ [][CallUpdatePosition]_vars

(***************************************************************************)
(* SpecSnapshot: Account.update_position in the portfolio worker and the   *)
(* position reads of a strategy worker, on the same positions dict.  No    *)
(* lock is taken by either.  A thread switch falls between two bytecodes   *)
(* at a call or a loop jump: inside update_position after the Position's   *)
(* own update_position (the is_empty property is a call) and before the    *)
(* del of an emptied position; inside get_strategy_positions between two   *)
(* rounds of the loop over positions.items().                              *)
(***************************************************************************)
SnapSymbols == {"X", "Y"}

SnapKeys(ps) == {x \in SnapSymbols : ps[x].held}

\* what update_position(fill) leaves of the positions ps
SnapAfter(ps, sym, change, price, sid) ==
    IF ~ps[sym].held
    THEN [ps EXCEPT ![sym] = [held |-> TRUE, quantity |-> change,
                              avg_price |-> RatOfInt(price),
                              strategy_id |-> sid]]
    ELSE LET upd == PositionUpdate(ps[sym], change, price)
         IN  [ps EXCEPT ![sym] = IF IsEmpty(upd) THEN NoPosition ELSE upd]

SnapshotInit ==
    /\ IdleProgram
    /\ unitOrder = NoUnitOrder
    /\ query = NoQuery
    /\ timer = NoTimer
    /\ strategies = InitialStrategies
    /\ feed = NoFeed
    /\ position = NoPositionCalls
    /\ stopCall = "none"
    /\ regs = NoRegs
    /\ restart = NoRestart
    /\ snap = NoSnap

snapRest == <<busVars, acctVars, drvVars, lifeVars, backtest, unitOrder,
              query, timer, strategies, feed, position, stopCall, regs,
              restart>>

\* update_position(fill) up to the del: a new Position is stored in the
\* dict, or the existing one is updated in place
UpdatePositionStore ==
    /\ snap.wpc = "idle"
    /\ snap.nfills < MaxSnapFills
    /\ \E sym \in SnapSymbols, side \in {"BUY", "SELL"},
          qty \in 1..MaxSnapQuantity, sid \in {"entry", "exit"} :
          LET change == IF side = "BUY" THEN qty ELSE 0 - qty
              ps == snap.positions
              after == SnapAfter(ps, sym, change, 1000, sid)
              upd == PositionUpdate(ps[sym], change, 1000)
          IN  snap' = [snap EXCEPT
                         !.nfills = @ + 1,
                         !.before = ps,
                         !.after = after,
                         !.positions = IF ps[sym].held
                                       THEN [ps EXCEPT ![sym] = upd]
                                       ELSE after,
                         !.wpc = IF ps[sym].held /\ IsEmpty(upd)
                                 THEN "emptied" ELSE "idle"]
    /\ UNCHANGED snapRest

\* del self.positions[symbol]
UpdatePositionDel ==
    /\ snap.wpc = "emptied"
    /\ snap' = [snap EXCEPT !.positions = snap.after, !.wpc = "idle"]
    /\ UNCHANGED snapRest

\* what a read of the dict at this moment has for the claim: whether an
\* update is part-way, and the positions before and after that update
Observation(kind, keys, sym) ==
    [kind |-> kind, keys |-> keys,
     in_dict |-> snap.positions[sym].held,
     quantity |-> snap.positions[sym].quantity,
     midway |-> snap.wpc # "idle",
     before |-> SnapKeys(IF snap.wpc # "idle" THEN snap.before
                         ELSE snap.positions),
     after |-> SnapKeys(IF snap.wpc # "idle" THEN snap.after
                        ELSE snap.positions),
     qbefore |-> (IF snap.wpc # "idle" THEN snap.before
                  ELSE snap.positions)[sym].quantity,
     qafter |-> (IF snap.wpc # "idle" THEN snap.after
                 ELSE snap.positions)[sym].quantity]

\* get_position_symbols: set(account.positions.keys())
ReadPositionSymbols ==
    /\ snap.rpc = "idle"
    /\ snap' = [snap EXCEPT
                  !.seen = Observation("keys", SnapKeys(snap.positions), "X")]
    /\ UNCHANGED snapRest

\* _check_exit_signal: account.get_position(symbol), then is_empty and
\* avg_price of the Position
ReadPosition ==
    /\ snap.rpc = "idle"
    /\ \E sym \in SnapSymbols :
          snap' = [snap EXCEPT
                     !.seen = Observation("position", SnapKeys(snap.positions),
                                          sym)]
    /\ UNCHANGED snapRest

\* get_strategy_positions: the loop over account.positions.items() begins
IterBegin ==
    /\ snap.rpc = "idle"
    /\ snap' = [snap EXCEPT !.rpc = "iter",
                            !.started = SnapKeys(snap.positions),
                            !.todo = SnapKeys(snap.positions),
                            !.acc = {}]
    /\ UNCHANGED snapRest

\* one round of the loop: the iterator raises RuntimeError when the dict has
\* changed size or keys since the loop began, ends the loop when no item is
\* left, and otherwise yields an item whose strategy_id is compared
IterStep ==
    /\ snap.rpc = "iter"
    /\ IF SnapKeys(snap.positions) # snap.started
       THEN snap' = [snap EXCEPT !.rpc = "idle",
                                !.seen = Observation("error", {}, "X")]
       ELSE IF snap.todo = {}
       THEN snap' = [snap EXCEPT !.rpc = "idle",
                                !.seen = Observation("strategy", snap.acc, "X")]
       ELSE \E x \in snap.todo :
               snap' = [snap EXCEPT
                          !.todo = @ \ {x},
                          !.acc = IF snap.positions[x].strategy_id = "exit"
                                  THEN @ \cup {x} ELSE @]
    /\ UNCHANGED snapRest

SnapshotNext ==
    \/ UpdatePositionStore
    \/ UpdatePositionDel
    \/ ReadPositionSymbols
    \/ ReadPosition
    \/ IterBegin
    \/ IterStep

SpecSnapshot == SnapshotInit /\ [][SnapshotNext]_vars

(***************************************************************************)
(* SpecValidate: the portfolio manager behind the engine, with a client    *)
(* whose signal events may carry an empty symbol, a strength above 1 or a  *)
(* price that is not positive.                                             *)
(***************************************************************************)
ValidateBudget ==
    [NoBudget EXCEPT !.signals = ValidateSignals,
                     !.inflight = TradeInFlight,
                     !.symbols = {"X", ""},
                     !.prices = {1000, 0, -1000},
                     !.strengths = {80, 150}]

ValidateInit == TradeInitWith(ValidateBudget, {DefaultConfig})

ValidateNext ==
    \/ EngineStart
    \/ StartHandler("portfolio")
    \/ ClientSignal
    \/ DispatchGet
    \/ DispatchPut
    \/ DispatchDone
    \/ WorkerGet("portfolio")
    \/ \E i \in 1..MaxThreads : OnSignal(i)

SpecValidate == ValidateInit /\ [][ValidateNext]_vars

(***************************************************************************)
(* The backtest driver, the data handler's cursor and an ENTRY strategy.   *)
(* Dates are day numbers; day 1 is a Friday.                               *)
(***************************************************************************)
\* date.weekday(), Monday = 0
Weekday(d) == (d + 3) % 7

\* TradingCalendar.is_trading_day with no holidays
IsTradingDay(d) == ~(Weekday(d) >= 5)

\* the timestamp of the newest bar get_latest_bars returns: the store holds
\* one daily bar per symbol and trading day, and get_bars cuts at the cursor
NewestBar(ct) ==
    LET days == {d \in 1..ct : IsTradingDay(d)}
    IN  IF days = {} THEN 0 ELSE CHOOSE d \in days : \A e \in days : e <= d

MarketEventOf(i, sym, day, close) ==
    [NoEvent EXCEPT !.type = "market", !.id = i, !.sym = sym, !.day = day,
                    !.price = close]

\* the loop skips a day that is not a trading day
DriverSkip ==
    /\ engineRunning
    /\ driverPc = "loop"
    /\ current_date <= backtest.end_date
    /\ ~IsTradingDay(current_date)
    /\ current_date' = current_date + 1
    /\ UNCHANGED <<current_time, driverPc, lastRead, nmarket>>
    /\ UNCHANGED <<busVars, acctVars, lifeVars, unitVars>>

\* self.data_handler.set_current_time(current_date)
DriverSetTime ==
    /\ engineRunning
    /\ driverPc = "loop"
    /\ current_date <= backtest.end_date
    /\ IsTradingDay(current_date)
    /\ current_time' = current_date
    /\ driverPc' = "simulate"
    /\ UNCHANGED <<current_date, lastRead, nmarket>>
    /\ UNCHANGED <<busVars, acctVars, lifeVars, unitVars>>

\* simulate_trading_day for the universe, then current_date += 1
DriverSimulate ==
    /\ driverPc = "simulate"
    /\ IF NewestBar(current_time) = current_date
          /\ Constructs("market", SendMarketEventArgs)
       THEN \E sym \in backtest.universe, close \in SignalPrices :
               EnginePut(MarketEventOf(nput + 1, sym, current_date, close))
       ELSE UNCHANGED putVars
    /\ current_date' = current_date + 1
    /\ driverPc' = "loop"
    /\ UNCHANGED <<current_time, lastRead, nmarket>>
    /\ UNCHANGED <<handlers, qcap, engineRunning, dispatcher, cur, running,
                   nthreads, hq, hcap, handling, delivered>>
    /\ UNCHANGED <<acctVars, lifeVars, unitVars>>

\* the client publishes a market event with the bar of the cursor's day
ClientMarket ==
    /\ ClientReady
    /\ nmarket < budget.markets
    /\ current_time # 0
    /\ NewestBar(current_time) = current_time
    /\ nmarket' = nmarket + 1
    /\ \E sym \in budget.symbols, close \in budget.prices :
          EnginePut(MarketEventOf(nput + 1, sym, current_time, close))
    /\ UNCHANGED <<current_time, current_date, driverPc, lastRead>>
    /\ UNCHANGED <<handlers, qcap, engineRunning, dispatcher, cur, running,
                   nthreads, hq, hcap, handling, delivered>>
    /\ UNCHANGED <<acctVars, lifeVars, unitVars>>

\* StrategyInstance.strategy_type
StrategyType(sid) ==
    CASE sid = "entry" -> "ENTRY"
      [] sid = "exit"  -> "EXIT"
      [] OTHER         -> "UNIVERSAL_STOP"

\* config.get('short_window', 5) and config.get('long_window', 20)
ShortWindow == 5
LongWindow == 20

\* config['universe'] of the strategies
StrategyUniverse == {"X"}

\* get_position_symbols: the keys of account.positions
PositionSymbols == {s \in Symbols : positions[s].held}

\* get_strategy_positions
StrategyPositions(sid) ==
    {s \in Symbols : positions[s].held /\ positions[s].strategy_id = sid}

WatchSymbolsUniverse(sid) == StrategyUniverse

\* MACrossStrategy.get_watch_symbols
WatchSymbols(sid) ==
    CASE StrategyType(sid) = "ENTRY" ->
           StrategyUniverse \ StrategyPositions(sid)
      [] StrategyType(sid) = "EXIT" -> StrategyPositions(sid)
      [] OTHER -> PositionSymbols

HandlesEventsAlways(sid) == TRUE

\* handle_event goes on to on_market_event: if not self.is_active: return
HandlesEvents(sid) == strategies[sid].is_active

\* get_strategy_positions walks account.positions while on_fill, in the
\* portfolio worker, adds or deletes a key: once in the loop body, the next
\* step of the loop can raise RuntimeError (dictionary changed size during
\* iteration), which leaves handle_event
IterationRaces(sid) ==
    /\ StrategyType(sid) \in {"ENTRY", "EXIT"}
    /\ PositionSymbols # {}
    /\ \E k \in 1..Len(handling["portfolio"]) :
          /\ handling["portfolio"][k].type = "fill"
          /\ {x \in Symbols : PositionsAfter(handling["portfolio"][k])[x].held}
                # PositionSymbols

\* generate_signals and _send_signal: an ENTRY strategy reads the bars for
\* its moving averages and may find a golden cross; an EXIT strategy reads
\* the position, and the bars when neither stop applies; a UNIVERSAL_STOP
\* strategy reads the position
GenerateSignals(sid, ev) ==
    /\ \E reads \in (IF StrategyType(sid) = "ENTRY" THEN {TRUE}
                     ELSE IF StrategyType(sid) = "EXIT" THEN BOOLEAN
                     ELSE {FALSE}) :
          lastRead' = IF reads
                      THEN [lastRead EXCEPT ![sid] =
                              [day |-> ev.day,
                               newest |-> NewestBar(current_time)]]
                      ELSE lastRead
    /\ \E found \in BOOLEAN :
          IF found /\ Constructs("signal", SendSignalArgs)
          THEN EnginePut(SignalEventOf(nput + 1, sid, ev.sym,
                                       IF StrategyType(sid) = "ENTRY"
                                       THEN "BUY" ELSE "SELL",
                                       80, ev.price))
          ELSE UNCHANGED putVars

\* BaseStrategy.handle_event for a market event
StrategyMarket(sid, i) ==
    /\ i \in 1..Len(handling[sid])
    /\ handling[sid][i].type = "market"
    /\ LET ev == handling[sid][i]
           st == strategies[sid]
       IN  IF ~HandlesEvents(sid)
           THEN /\ strategies' = [strategies EXCEPT
                                    ![sid].discarded = @ + 1]
                /\ UNCHANGED <<lastRead, putVars>>
           ELSE \E interrupted \in (IF IterationRaces(sid)
                                    THEN BOOLEAN ELSE {FALSE}) :
                  IF interrupted
                  THEN /\ strategies' = [strategies EXCEPT
                                           ![sid].errors = @ + 1]
                       /\ UNCHANGED <<lastRead, putVars>>
                  ELSE IF ev.sym \notin WatchSymbols(sid)
                  THEN /\ strategies' = [strategies EXCEPT
                                           ![sid].ignored = @ + 1]
                       /\ UNCHANGED <<lastRead, putVars>>
                  ELSE /\ strategies' = [strategies EXCEPT
                                           ![sid].calls = @ + 1,
                                           ![sid].epoch = st.deactivations]
                       /\ GenerateSignals(sid, ev)
    /\ Return(sid, i)
    /\ UNCHANGED <<current_time, current_date, driverPc, nmarket>>
    /\ UNCHANGED <<handlers, qcap, engineRunning, dispatcher, cur, running,
                   nthreads, hq, hcap, delivered>>
    /\ UNCHANGED <<acctVars, lifeVars, backtest, unitObjects>>

\* strategy.activate(), as StrategyManager.activate_strategy calls it
Activate(sid) ==
    /\ strategies[sid].toggles < MaxToggles
    /\ strategies' = [strategies EXCEPT ![sid].is_active = TRUE,
                                        ![sid].last = "activate",
                                        ![sid].toggles = @ + 1]
    /\ UNCHANGED <<busVars, acctVars, drvVars, lifeVars, backtest,
                   unitObjects>>

\* strategy.deactivate(), as StrategyManager.deactivate_strategy calls it
Deactivate(sid) ==
    /\ strategies[sid].toggles < MaxToggles
    /\ strategies' = [strategies EXCEPT ![sid].is_active = FALSE,
                                        ![sid].last = "deactivate",
                                        ![sid].toggles = @ + 1,
                                        ![sid].deactivations = @ + 1]
    /\ UNCHANGED <<busVars, acctVars, drvVars, lifeVars, backtest,
                   unitObjects>>

\* StrategyManager.get_statistics for the strategies it holds
GetStatistics(held) ==
    [total_strategies |-> Cardinality(held),
     active_strategies |->
        Cardinality({sid \in held : strategies[sid].is_active})]

(***************************************************************************)
(* SpecBacktest: BacktestEngine.run with one ENTRY strategy, and a client  *)
(* of the engine that publishes complete market events.                    *)
(***************************************************************************)
BacktestHandlers == {"exec", "portfolio"} \cup Strategies

BacktestBudget == [NoBudget EXCEPT !.markets = MaxMarkets,
                                   !.inflight = MaxInFlight,
                                   !.symbols = {"X"},
                                   !.prices = SignalPrices]

\* _initialize_components and add_strategy for the strategies ss
EngineInitWith(ss, b, r, pc) ==
    /\ handlers = [t \in EventTypes |->
                     CASE t = "order"  -> <<"exec">>
                       [] t = "signal" -> <<"portfolio">>
                       [] t = "fill"   -> <<"portfolio">>
                       [] t = "market" -> ss
                       [] OTHER -> <<>>]
    /\ queue = <<>>
    /\ qcap = DefaultQueueSize
    /\ stats = [events_dispatched |-> 0, events_dropped |-> 0,
                dispatch_errors |-> 0]
    /\ engineRunning = FALSE
    /\ dispatcher = 0
    /\ cur = Idle
    /\ running = [h \in {"exec", "portfolio"} \cup {ss[k] : k \in 1..Len(ss)} |-> FALSE]
    /\ nthreads = [h \in {"exec", "portfolio"} \cup {ss[k] : k \in 1..Len(ss)} |-> 0]
    /\ hq = [h \in {"exec", "portfolio"} \cup {ss[k] : k \in 1..Len(ss)} |-> <<>>]
    /\ hcap = [h \in {"exec", "portfolio"} \cup {ss[k] : k \in 1..Len(ss)} |-> DefaultHandlerQueueSize]
    /\ handling = [h \in {"exec", "portfolio"} \cup {ss[k] : k \in 1..Len(ss)} |-> <<>>]
    /\ delivered = [h \in {"exec", "portfolio"} \cup {ss[k] : k \in 1..Len(ss)} |-> <<>>]
    /\ accepted = <<>>
    /\ lastPut = [ev |-> NoEvent, ret |-> FALSE]
    /\ nput = 0
    /\ AccountInitRun(DefaultConfig, b, r, pc)
    /\ UnitInit

BacktestInitWith(b, r, pc) == EngineInitWith(<<"entry">>, b, r, pc)

BacktestInit == BacktestInitWith(BacktestBudget, DefaultRun, "loop")

BacktestNext ==
    \/ EngineStart
    \/ \E h \in BacktestHandlers : StartHandler(h)
    \/ DriverSkip
    \/ DriverSetTime
    \/ DriverSimulate
    \/ ClientMarket
    \/ DispatchGet
    \/ DispatchPut
    \/ DispatchDone
    \/ \E h \in BacktestHandlers : WorkerGet(h)
    \/ \E sid \in Strategies, i \in 1..MaxThreads : StrategyMarket(sid, i)

SpecBacktest == BacktestInit /\ [][BacktestNext]_vars

(***************************************************************************)
(* SpecStrategy: an ENTRY, an EXIT or a UNIVERSAL_STOP strategy behind the *)
(* engine with the portfolio manager, a one-day backtest loop, callers of  *)
(* activate() and deactivate(), and a client that publishes complete       *)
(* market, signal and fill events; the client's signals carry the id of    *)
(* the ENTRY or of the EXIT strategy, so that positions of either exist.   *)
(***************************************************************************)
\* the strategies the StrategyManager holds
ManagedStrategies == AllStrategies \cap DOMAIN hq

StrategyBudget ==
    [NoBudget EXCEPT !.markets = StratMarkets, !.signals = StratSignals,
                     !.fills = StratFills, !.inflight = StratInFlight,
                     !.symbols = {"X"}, !.prices = SignalPrices,
                     !.strengths = {80}, !.buyers = {"entry", "exit"}]

StrategyInit ==
    \E sid \in AllStrategies :
        EngineInitWith(<<sid>>, StrategyBudget,
                       [DefaultRun EXCEPT !.end_date = StartDate], "loop")

StrategyNext ==
    \/ LifeStart
    \/ DriverSetTime
    \/ DriverSimulate
    \/ ClientMarket
    \/ ClientSignal
    \/ \E oid \in 1..Len(orders) : ClientFill(oid)
    \/ DispatchGet
    \/ DispatchPut
    \/ DispatchDone
    \/ \E h \in DOMAIN hq : WorkerGet(h)
    \/ \E i \in 1..MaxThreads : OnSignal(i)
    \/ \E i \in 1..MaxThreads : OnFill(i)
    \/ \E sid \in ManagedStrategies, i \in 1..MaxThreads :
          StrategyMarket(sid, i)
    \/ \E sid \in ManagedStrategies : Activate(sid)
    \/ \E sid \in ManagedStrategies : Deactivate(sid)

SpecStrategy == StrategyInit /\ [][StrategyNext]_vars

(***************************************************************************)
(* SpecRun: BacktestEngine.run from _validate_setup to its return, for the *)
(* setups of RunSetups, with a client of the engine that publishes         *)
(* complete market and signal events while the loop runs.                  *)
(***************************************************************************)
RunSetups ==
    {[DefaultRun EXCEPT !.start_date = a, !.end_date = b, !.universe = u] :
        a \in StartDate..(MaxDays - 1), b \in (StartDate + 1)..MaxDays,
        u \in {{}, {"X"}}}

RunBudget == [NoBudget EXCEPT !.markets = RunMarkets, !.signals = RunSignals,
                              !.inflight = MaxInFlight,
                              !.symbols = {"X"}, !.prices = SignalPrices,
                              !.strengths = {80}]

RunInit == \E r \in RunSetups : BacktestInitWith(RunBudget, r, "validate")

\* _validate_setup
ValidateSetup(r) ==
    /\ ~(r.start_date >= r.end_date)
    /\ r.universe # {}
    /\ Strategies # {}

\* run() up to _start_components: return False when the setup is not valid
RunValidate ==
    /\ driverPc = "validate"
    /\ IF ValidateSetup(backtest)
       THEN /\ driverPc' = "loop"
            /\ backtest' = backtest
       ELSE /\ driverPc' = "done"
            /\ backtest' = [backtest EXCEPT !.result = "false"]
    /\ UNCHANGED <<current_time, current_date, lastRead, nmarket>>
    /\ UNCHANGED <<busVars, acctVars, lifeVars, unitRest>>

\* _start_components: event_engine.start() starts every registered handler,
\* and the start() calls that follow find them running
RunStart ==
    /\ driverPc = "loop"
    /\ stopIdx = 0
    /\ EngineStart

\* the order in which _stop_components stops the handlers
StopOrder == <<"entry", "portfolio", "exec">>

\* _stop_components after the loop: stop() of the next handler
RunStopHandler ==
    /\ engineRunning
    /\ \/ driverPc = "loop" /\ current_date > backtest.end_date
       \/ driverPc = "stop"
    /\ backtest.nstopped < Len(StopOrder)
    /\ LET h == StopOrder[backtest.nstopped + 1]
       IN  /\ running' = [running EXCEPT ![h] = FALSE]
           /\ atStop' = [atStop EXCEPT ![h] = hq[h]]
           /\ \E k \in 0..IdleWorkers(h) :
                 polling' = [polling EXCEPT ![h] = k]
    /\ backtest' = [backtest EXCEPT !.nstopped = @ + 1]
    /\ driverPc' = "stop"
    /\ UNCHANGED <<handlers, queue, qcap, stats, engineRunning, dispatcher,
                   cur, nthreads, hq, hcap, handling, delivered, accepted,
                   lastPut, nput>>
    /\ UNCHANGED <<acctVars, current_time, current_date, lastRead, nmarket,
                   stopIdx, raised, unitRest>>

\* _stop_components: self.event_engine.stop()
RunEngineStop ==
    /\ driverPc = "stop"
    /\ backtest.nstopped = Len(StopOrder)
    /\ EngineStop

\* run() returns True
RunReturn ==
    /\ driverPc = "stop"
    /\ stopIdx = Len(Registrations) + 2
    /\ driverPc' = "done"
    /\ backtest' = [backtest EXCEPT !.result = "true"]
    /\ UNCHANGED <<current_time, current_date, lastRead, nmarket>>
    /\ UNCHANGED <<busVars, acctVars, lifeVars, unitRest>>

\* the client publishes while the loop runs
RunClient ==
    /\ engineRunning
    /\ driverPc \in {"loop", "simulate"}
    /\ ClientMarket \/ ClientSignal

RunNext ==
    \/ RunValidate
    \/ RunStart
    \/ DriverSkip
    \/ DriverSetTime
    \/ DriverSimulate
    \/ RunClient
    \/ DispatchGet
    \/ DispatchPut
    \/ DispatchDone
    \/ \E h \in BacktestHandlers : WorkerGet(h)
    \/ \E sid \in Strategies, i \in 1..MaxThreads : StrategyMarket(sid, i)
    \/ \E i \in 1..MaxThreads : OnSignal(i)
    \/ RunStopHandler
    \/ RunEngineStop
    \/ StopHandler
    \/ StopFinish
    \/ \E h \in BacktestHandlers : WorkerGetLate(h)
    \/ \E h \in BacktestHandlers : WorkerExit(h)
    \/ DispatchGetLate
    \/ DispatcherBreak
    \/ DispatcherExit
    \/ RunReturn

SpecRun == RunInit /\ [][RunNext]_vars

(***************************************************************************)
(* SpecData: BacktestDataHandler with one daily bar of X per trading day   *)
(* of 1..MaxDataDay in its store, a thread that calls get_bars,            *)
(* get_latest_bar and get_latest_bars, and the driver thread, which moves  *)
(* the cursor forward. self.current_time is read without a lock: the reads *)
(* that a call separates are steps of their own.                           *)
(***************************************************************************)
\* DuckDBStorage.load_bars: the days of the bars with start <= datetime <=
\* end, ORDER BY datetime
LoadBars(start, end) ==
    LET days == {d \in 1..MaxDataDay :
                    IsTradingDay(d) /\ start <= d /\ d <= end}
        Sorted[n \in 0..Cardinality(days)] ==
            IF n = 0 THEN <<>>
            ELSE Append(Sorted[n - 1],
                        CHOOSE d \in days :
                           Cardinality({e \in days : e < d}) = n - 1)
    IN  Sorted[Cardinality(days)]

ClampEndNoClamp(end, ct) == end

\* the end_date get_bars queries the store with; ct = 0 is a cursor of None
ClampEnd(end, ct) == IF ct # 0 /\ end > ct THEN ct ELSE end

\* df.tail(count)
TailBars(bars, count) ==
    IF Len(bars) <= count THEN bars
    ELSE SubSeq(bars, Len(bars) - count + 1, Len(bars))

dataRest == <<busVars, acctVars, lifeVars, backtest, unitOrder, timer,
             strategies, feed, entityVars>>

DataInit == IdleProgram /\ UnitInit

\* set_current_time(dt) with a later dt
SetCurrentTime ==
    /\ \E t \in (current_time + 1)..MaxDataDay : current_time' = t
    /\ UNCHANGED <<current_date, driverPc, lastRead, nmarket, query>>
    /\ UNCHANGED dataRest

\* a caller enters get_bars(["X"], start_date, end_date, frequency)
CallGetBars ==
    /\ query.pc \in {"idle", "done"}
    /\ \E a \in 1..MaxDataDay, b \in 1..MaxDataDay :
          query' = [NoQuery EXCEPT !.pc = "clamp", !.kind = "get_bars",
                                   !.start_date = a, !.end_date = b,
                                   !.t_end = b,
                                   !.set_at_call = current_time # 0]
    /\ UNCHANGED <<drvVars, dataRest>>

\* a caller enters get_latest_bar("X", frequency) or
\* get_latest_bars(["X"], frequency, count)
CallGetLatest ==
    /\ query.pc \in {"idle", "done"}
    /\ \E k \in {"get_latest_bar", "get_latest_bars"}, n \in 1..MaxBarCount :
          query' = [NoQuery EXCEPT !.pc = "latest_check", !.kind = k,
                                   !.count = IF k = "get_latest_bar"
                                             THEN 1 ELSE n]
    /\ UNCHANGED <<drvVars, dataRest>>

\* if not self.current_time: return None / return {}
LatestCheck ==
    /\ query.pc = "latest_check"
    /\ query' = IF current_time = 0
                THEN [query EXCEPT !.pc = "done", !.none = TRUE]
                ELSE [query EXCEPT !.pc = "latest_start",
                                   !.set_at_call = TRUE]
    /\ UNCHANGED <<drvVars, dataRest>>

\* the argument self.current_time - timedelta(days=30), or days=60
LatestStart ==
    /\ query.pc = "latest_start"
    /\ query' = [query EXCEPT
                   !.pc = "latest_end",
                   !.start_date = current_time
                       - (IF query.kind = "get_latest_bar" THEN 30 ELSE 60)]
    /\ UNCHANGED <<drvVars, dataRest>>

\* the argument self.current_time, and the call of get_bars
LatestEnd ==
    /\ query.pc = "latest_end"
    /\ query' = [query EXCEPT !.pc = "clamp", !.end_date = current_time,
                              !.t_end = current_time]
    /\ UNCHANGED <<drvVars, dataRest>>

\* get_bars: if self.current_time and end_date > self.current_time:
\* end_date = self.current_time. The statement holds no call and no backward
\* jump, the points at which the interpreter switches threads, so its three
\* reads of the cursor see one value.
GetBarsClamp ==
    /\ query.pc = "clamp"
    /\ query' = [query EXCEPT !.pc = "load",
                              !.end_date = ClampEnd(@, current_time)]
    /\ UNCHANGED <<drvVars, dataRest>>

\* get_bars: return self.duckdb_storage.load_bars(...), and what
\* get_latest_bar and get_latest_bars make of the frame
GetBarsLoad ==
    /\ query.pc = "load"
    /\ LET df == LoadBars(query.start_date, query.end_date)
       IN  query' =
             CASE query.kind = "get_bars" ->
                    [query EXCEPT !.pc = "done", !.bars = df]
               [] query.kind = "get_latest_bar" ->
                    [query EXCEPT !.pc = "done", !.none = (df = <<>>),
                                  !.bars = TailBars(df, 1)]
               [] OTHER ->
                    [query EXCEPT !.pc = "done",
                                  !.bars = TailBars(df, query.count)]
    /\ UNCHANGED <<drvVars, dataRest>>

DataNext ==
    \/ SetCurrentTime
    \/ CallGetBars
    \/ CallGetLatest
    \/ LatestCheck
    \/ LatestStart
    \/ LatestEnd
    \/ GetBarsClamp
    \/ GetBarsLoad

SpecData == DataInit /\ [][DataNext]_vars

(***************************************************************************)
(* SpecTimer: one Timer, the thread that calls its start() and stop(), and *)
(* the threads it starts. threads[i] is where the i-th thread stands in    *)
(* _run; the last one is self._thread.                                     *)
(***************************************************************************)
timerRest == <<busVars, acctVars, drvVars, lifeVars, backtest, unitOrder,
               query, strategies, feed, entityVars>>

TimerInit ==
    /\ IdleProgram
    /\ unitOrder = NoUnitOrder
    /\ query = NoQuery
    /\ strategies = InitialStrategies
    /\ feed = NoFeed
    /\ EntityInit
    /\ \E rp \in BOOLEAN, sd \in {0, 1} :
          timer = [NoTimer EXCEPT !.repeat = rp, !.start_delay = sd]

\* Timer.start
TimerStart ==
    /\ timer.caller = "idle"
    /\ Len(timer.threads) < MaxTimerThreads
    /\ timer' = IF timer.running THEN timer
                ELSE [timer EXCEPT
                        !.running = TRUE,
                        !.stop_event = FALSE,
                        !.threads = Append(@, IF timer.start_delay > 0
                                              THEN "delay" ELSE "loop")]
    /\ UNCHANGED timerRest

\* Timer.stop up to the join
TimerStop ==
    /\ timer.caller = "idle"
    /\ timer' = IF ~timer.running THEN timer
                ELSE [timer EXCEPT !.running = FALSE, !.stop_event = TRUE,
                                   !.caller = "join"]
    /\ UNCHANGED timerRest

\* self._thread.join(timeout=5.0) returns: the thread has ended, or the five
\* seconds have passed while it is inside the callback
TimerJoin ==
    /\ timer.caller = "join"
    /\ \/ timer.threads = <<>>
       \/ timer.threads[Len(timer.threads)] \in {"dead", "callback"}
    /\ timer' = [timer EXCEPT !.caller = "idle"]
    /\ UNCHANGED timerRest

\* _run: if self._stop_event.wait(self.start_delay): return
TimerDelay(i) ==
    /\ i \in 1..Len(timer.threads)
    /\ timer.threads[i] = "delay"
    /\ timer' = [timer EXCEPT !.threads[i] = IF timer.stop_event
                                              THEN "dead" ELSE "loop"]
    /\ UNCHANGED timerRest

\* _run: while self._running, then the call of the callback
TimerLoop(i) ==
    /\ i \in 1..Len(timer.threads)
    /\ timer.threads[i] = "loop"
    /\ timer' = [timer EXCEPT !.threads[i] = IF timer.running
                                              THEN "callback" ELSE "dead"]
    /\ UNCHANGED timerRest

\* _run: the callback returns or raises; without repeat a return leaves the
\* loop
TimerCallbackEnd(i) ==
    /\ i \in 1..Len(timer.threads)
    /\ timer.threads[i] = "callback"
    /\ \E raises \in BOOLEAN :
          timer' = [timer EXCEPT !.threads[i] =
                      IF ~raises /\ ~timer.repeat THEN "dead" ELSE "wait"]
    /\ UNCHANGED timerRest

\* _run: if self._stop_event.wait(...): break
TimerWait(i) ==
    /\ i \in 1..Len(timer.threads)
    /\ timer.threads[i] = "wait"
    /\ timer' = [timer EXCEPT !.threads[i] = IF timer.stop_event
                                              THEN "dead" ELSE "loop"]
    /\ UNCHANGED timerRest

TimerNext ==
    \/ TimerStart
    \/ TimerStop
    \/ TimerJoin
    \/ \E i \in 1..MaxTimerThreads : TimerDelay(i)
    \/ \E i \in 1..MaxTimerThreads : TimerLoop(i)
    \/ \E i \in 1..MaxTimerThreads : TimerCallbackEnd(i)
    \/ \E i \in 1..MaxTimerThreads : TimerWait(i)

SpecTimer == TimerInit /\ [][TimerNext]_vars

(***************************************************************************)
(* SpecCross: an ENTRY MACrossStrategy with the default windows is fed the *)
(* daily bars of X one by one: FlatBars closes of 10.00 and then           *)
(* RisingBars closes, each equal to the one before or 0.10 above it.  The  *)
(* averages are compared as sums, which is exact; the code compares        *)
(* floats, and differs only on a tie of unequal sums, which these closes   *)
(* do not produce (a tie occurs only while every close is 10.00).          *)
(***************************************************************************)
RECURSIVE SumCloses(_)
SumCloses(bars) ==
    IF bars = <<>> THEN 0 ELSE Head(bars) + SumCloses(Tail(bars))

\* bars[-count:]
LastBars(bars, count) ==
    IF Len(bars) <= count THEN bars
    ELSE SubSeq(bars, Len(bars) - count + 1, Len(bars))

\* _calculate_ma as the sum of the window, defined when the window is full
HasMa(bars, window) == Len(bars) >= window

MaSum(bars, window) == SumCloses(LastBars(bars, window))

\* _check_entry_signal on the bars get_latest_bars returns, the last of
\* which is the current bar
CheckEntrySignal(bars) ==
    LET prev == SubSeq(bars, 1, Len(bars) - 1)
        close == bars[Len(bars)]
    IN  /\ Len(bars) >= LongWindow
        /\ HasMa(prev, ShortWindow)
        /\ HasMa(prev, LongWindow)
        /\ MaSum(prev, ShortWindow) * LongWindow
              <= MaSum(prev, LongWindow) * ShortWindow
        /\ MaSum(bars, ShortWindow) * LongWindow
              > MaSum(bars, LongWindow) * ShortWindow
        /\ close * ShortWindow > MaSum(bars, ShortWindow)

\* the scenario's account: default_position_size 50,000 and no slippage
CrossConfig ==
    [DefaultConfig EXCEPT !.default_position_size = 5000000, !.slippage = 0]

RECURSIVE RisingFrom(_, _)
\* the sequences of n closes that start at or 0.10 above c and go on so
RisingFrom(c, n) ==
    IF n = 0 THEN {<<>>}
    ELSE UNION {{<<d>> \o t : t \in RisingFrom(d, n - 1)} : d \in {c, c + 10}}

FlatCloses == [k \in 1..FlatBars |-> 1000]

CrossInit ==
    /\ BusObjects
    /\ AccountInitRun(CrossConfig, NoBudget, DefaultRun, "loop")
    /\ unitOrder = NoUnitOrder
    /\ query = NoQuery
    /\ timer = NoTimer
    /\ strategies = InitialStrategies
    /\ EntityInit
    /\ \E tail \in RisingFrom(1000, RisingBars) :
          feed = [NoFeed EXCEPT !.closes = FlatCloses \o tail]

\* the next bar of X becomes the newest bar and its market event is handled
\* by the strategy: on_market_event, then the portfolio manager's order for
\* a published signal, after whose fill X is no longer watched
FeedBar ==
    /\ feed.fed < Len(feed.closes)
    /\ LET n == feed.fed + 1
           close == feed.closes[n]
           bars == LastBars(SubSeq(feed.closes, 1, n), LongWindow + 5)
           watched == feed.orders = <<>>
           found == watched /\ CheckEntrySignal(bars)
           sent == found /\ Constructs("signal", SendSignalArgs)
       IN  feed' = [feed EXCEPT
                      !.fed = n,
                      !.signals = IF found THEN @ \cup {n} ELSE @,
                      !.emitted = IF sent THEN @ \cup {n} ELSE @,
                      !.orders = IF sent
                                 THEN Append(@,
                                        [bar |-> n, price |-> close,
                                         quantity |->
                                           BuyQuantity(cfg.default_position_size,
                                                       close)])
                                 ELSE @]
    /\ UNCHANGED <<busVars, acctVars, drvVars, lifeVars, backtest, unitOrder,
                   query, timer, strategies, entityVars>>

SpecCross == CrossInit /\ [][FeedBar]_vars

(***************************************************************************)
(* Claims settled under SpecBus                                            *)
(***************************************************************************)
RECURSIVE IsSubseq(_, _)
IsSubseq(s, t) ==
    IF s = <<>> THEN TRUE
    ELSE IF t = <<>> THEN FALSE
    ELSE IF Head(s) = Head(t) THEN IsSubseq(Tail(s), Tail(t))
    ELSE IsSubseq(s, Tail(t))

RegisteredTypes(h) ==
    {t \in EventTypes : \E i \in 1..Len(handlers[t]) : handlers[t][i] = h}

AcceptedFor(h) == SelectSeq(accepted, LAMBDA e : e.type \in RegisteredTypes(h))

\* C1: for every handler, the events its worker passed to handle_event are a
\* subsequence of the events put accepted whose type the handler subscribes
\* to, in the order put accepted them (no duplicate, no reordering).
C1_FifoPerSubscriber ==
    \A h \in DOMAIN hq : IsSubseq(delivered[h], AcceptedFor(h))

\* a handler was handed events of both its types, and fewer than were accepted
C1_Witness ==
    \E h \in DOMAIN hq :
       /\ Len(delivered[h]) >= 2
       /\ \E i, j \in 1..Len(delivered[h]) :
             delivered[h][i].type # delivered[h][j].type
       /\ handling[h] = <<>> /\ hq[h] = <<>> /\ queue = <<>> /\ ~cur.busy
       /\ Len(delivered[h]) < Len(AcceptedFor(h))

\* C9: a call of put is one step that never waits; it returns True exactly
\* when it appended the event to the central queue, and on a full queue it
\* returns False, leaves the queue as it was and adds one to events_dropped.
C9_PutFailsFast ==
    [][ nput' = nput + 1 =>
          /\ lastPut'.ret = (Len(queue) < qcap)
          /\ lastPut'.ret <=> (queue' = Append(queue, lastPut'.ev))
          /\ lastPut'.ret => stats' = stats
          /\ ~lastPut'.ret =>
                /\ queue' = queue
                /\ stats' = [stats EXCEPT !.events_dropped = @ + 1] ]_vars

\* a put met a full central queue and returned False
C9_Witness ==
    /\ nput > 0
    /\ ~lastPut.ret
    /\ Len(queue) = qcap
    /\ stats.events_dropped > 0

\* C10: each step of the dispatch loop affects only the handler it is at:
\* a handler with room gets the event, a full one loses it with
\* events_dropped + 1, and in both cases the loop moves on to the next
\* handler; a dispatcher inside the loop can always take its next step.
C10_OverflowIsolated ==
    /\ [][ (cur.busy /\ cur.idx <= Len(handlers[cur.ev.type]) /\ cur' # cur) =>
            LET h == handlers[cur.ev.type][cur.idx]
            IN  /\ cur' = [cur EXCEPT !.idx = @ + 1]
                /\ \A g \in DOMAIN hq : g # h => hq'[g] = hq[g]
                /\ IF Len(hq[h]) < hcap[h]
                   THEN /\ hq'[h] = Append(hq[h], cur.ev)
                        /\ stats' = stats
                   ELSE /\ hq'[h] = hq[h]
                        /\ stats' = [stats EXCEPT !.events_dropped = @ + 1] ]_vars
    /\ [](cur.busy => ENABLED (DispatchPut \/ DispatchDone))

Got(h) == {delivered[h][i] : i \in 1..Len(delivered[h])}
             \cup {hq[h][i] : i \in 1..Len(hq[h])}

\* the slow handler lost a market event that the fast handler received, and
\* a later market event still reached the slow handler
C10_Witness ==
    \E e \in Got("fast") : \E e2 \in Got("slow") :
       /\ e.type = "market"
       /\ e \notin Got("slow")
       /\ e2.id > e.id
       /\ stats.events_dropped > 0

(***************************************************************************)
(* Claims settled under SpecFault, SpecBus and SpecLifecycle               *)
(***************************************************************************)
\* C11: a step in which handle_event of a handler raises removes only that
\* callback: the handler keeps its worker thread and its running flag, its
\* queue, the central queue, the dispatcher, the counters and every other
\* handler are left as they were; a handler that has raised still has a live
\* worker that can take the next event of its queue, and the events passed to
\* handle_event stay in the order put accepted them.
C11_FailureIsolated ==
    /\ [][ \A h \in DOMAIN hq : raised'[h] # raised[h] =>
             /\ Len(handling'[h]) = Len(handling[h]) - 1
             /\ nthreads' = nthreads
             /\ running' = running
             /\ hq' = hq
             /\ delivered' = delivered
             /\ <<queue, cur, stats, dispatcher, engineRunning>>' =
                   <<queue, cur, stats, dispatcher, engineRunning>>
             /\ \A g \in DOMAIN hq \ {h} :
                   handling'[g] = handling[g] /\ raised'[g] = raised[g] ]_vars
    /\ [](\A h \in DOMAIN hq : raised[h] # <<>> =>
             /\ running[h] /\ nthreads[h] >= 1
             /\ (hq[h] # <<>> /\ handling[h] = <<>>) => ENABLED WorkerGet(h)
             /\ IsSubseq(delivered[h], AcceptedFor(h)))

\* handle_event of a handler raised on an event, and the same worker has
\* since handled a later event to the end while the other handler worked too
C11_Witness ==
    \E h \in DOMAIN hq :
       /\ raised[h] # <<>>
       /\ handling[h] = <<>>
       /\ \E i \in 1..Len(delivered[h]) :
             /\ delivered[h][i].id > raised[h][1].id
             /\ \A k \in 1..Len(raised[h]) : raised[h][k] # delivered[h][i]
       /\ \E g \in DOMAIN hq \ {h} : delivered[g] # <<>> /\ raised[g] = <<>>

\* C12: once the central queue is drained, events_dispatched + events_dropped
\* equals the number of events published with put.
C12_CounterConservation ==
    (queue = <<>> /\ ~cur.busy) =>
        stats.events_dispatched + stats.events_dropped = nput

\* C13: when the worker of a stopped handler has left _run, every event that
\* was in the handler's queue when stop() cleared its flag has been passed to
\* handle_event.
C13_StopDrains ==
    \A h \in DOMAIN hq :
       (stopIdx > 0 /\ ~running[h] /\ nthreads[h] = 0) =>
           \A i \in 1..Len(atStop[h]) :
              \E k \in 1..Len(delivered[h]) : delivered[h][k] = atStop[h][i]

(***************************************************************************)
(* Claims settled under SpecPortfolio and SpecTrade                        *)
(***************************************************************************)
\* a step that called freeze_cash, unfreeze_cash, update_position or add_order
AccountMutated ==
    \/ cash' # cash
    \/ frozen_cash' # frozen_cash
    \/ positions' # positions
    \/ fills' # fills
    \/ Len(orders') # Len(orders)

\* C2: the portfolio manager never has more than one worker thread, so at most
\* one on_signal/on_fill is in progress at any time, and every step that
\* mutates the Account is the step of that one callback: no step of the
\* dispatcher, of the executor's worker or of a client thread mutates it.
C2_AccountSerialized ==
    /\ [](nthreads["portfolio"] <= 1 /\ Len(handling["portfolio"]) <= 1)
    /\ [][ AccountMutated =>
             /\ Len(handling["portfolio"]) = 1
             /\ handling'["portfolio"] = <<>>
             /\ handling'["exec"] = handling["exec"]
             /\ cur' = cur
             /\ nput' = nput ]_vars

\* on_signal has reserved cash and added an order, on_fill has applied a fill,
\* and meanwhile the executor's worker is inside execute_order
C2_Witness ==
    /\ Len(orders) >= 1
    /\ Len(fills) >= 1
    /\ \E i \in 1..Len(handling["exec"]) :
          execStage[handling["exec"][i].oid].pc = "submitted"
    /\ nthreads["portfolio"] = 1
    /\ nthreads["exec"] = 1

FinalStatus == {"FILLED", "CANCELLED", "REJECTED"}

\* the edges of the order state machine
LegalEdge(a, b) ==
    \/ a = b
    \/ a = "PENDING" /\ b = "SUBMITTED"
    \/ a = "SUBMITTED" /\ b \in {"PARTIALLY_FILLED"} \cup FinalStatus
    \/ a = "PARTIALLY_FILLED" /\ b \in FinalStatus

\* C3: every step takes each order along an edge of PENDING -> SUBMITTED ->
\* PARTIALLY_FILLED* -> FILLED | CANCELLED | REJECTED, and leaves the status
\* and the filled_quantity of an order in a final status as they are.
C3_OrderStateMachine ==
    [][ \A o \in 1..Len(orders) :
           /\ LegalEdge(orders[o].status, orders'[o].status)
           /\ orders[o].status \in FinalStatus =>
                 /\ orders'[o].status = orders[o].status
                 /\ orders'[o].filled_quantity = orders[o].filled_quantity ]_vars

\* C4: cash is never negative and frozen_cash stays between 0 and cash.
C4_CashInvariant ==
    /\ cash >= 0
    /\ 0 <= frozen_cash
    /\ frozen_cash <= cash

\* C5: every position the account holds has a quantity above zero.
C5_LongOnly == \A s \in Symbols : positions[s].held => positions[s].quantity > 0

MarkPrices == {900, 1000, 1100}

\* C6: at any last price, cash plus the market value of the positions equals
\* initial_capital + total_realized_pnl + unrealized_pnl.
C6_AccountingIdentity ==
    \A p \in MarkPrices :
       LET prices == [s \in Symbols |-> p]
       IN  TotalValue(prices) =
             RatAdd(RatOfInt(initial_capital + total_realized_pnl),
                    PositionsUnrealizedPnl(prices))

(***************************************************************************)
(* Claims about the portfolio manager, settled under SpecTrade and SpecRisk *)
(***************************************************************************)
OrderKey(o) == <<o.strategy_id, o.symbol, o.side>>

\* C14: of the signals with one (strategy_id, symbol, direction) at most one
\* records an order; the set of recent signals is not cleared in these runs.
C14_DedupOneOrder ==
    \A i, j \in 1..Len(orders) :
       i # j => OrderKey(orders[i]) # OrderKey(orders[j])

\* the fill of order oid has been applied to the account
FillApplied(oid) == \E k \in 1..Len(fills) : fills[k].oid = oid

\* the cash reserved when the BUY orders 1..n were emitted, summed over those
\* whose fill has not been applied
RECURSIVE OutstandingReserved(_)
OutstandingReserved(n) ==
    IF n = 0 THEN 0
    ELSE OutstandingReserved(n - 1)
           + (IF orders[n].side = "BUY" /\ ~FillApplied(n)
              THEN orders[n].quantity * orders[n].price
                     + (orders[n].quantity * orders[n].price) \div 1000
              ELSE 0)

\* C15: frozen_cash is the sum of the reservations of the BUY orders whose
\* fill has not been applied: a BUY fill releases the reservation of its own
\* order and nothing else, and frozen_cash is 0 once every BUY order is filled.
C15_ReleaseExactly == frozen_cash = OutstandingReserved(Len(orders))

\* C16: every BUY fill applied has its Trade in account.trades, every SELL fill
\* applied has closed a Trade, and total_realized_pnl is the sum of the
\* realized pnl of the closed trades.
C16_TradesMaintained ==
    /\ \A k \in 1..Len(fills) :
          \E t \in 1..Len(trades) :
             /\ trades[t].symbol = fills[k].sym
             /\ IF fills[k].dir = "BUY"
                THEN trades[t].buy_oid = fills[k].oid
                ELSE trades[t].status = "CLOSED"
                       /\ trades[t].sell_oid = fills[k].oid
    /\ \A t \in 1..Len(trades) :
          trades[t].status = "CLOSED" => total_realized_pnl # 0

\* the step is the return of on_signal from the signal at handling[...][i]
SignalHandled(i) ==
    /\ i \in 1..Len(handling["portfolio"])
    /\ handling["portfolio"][i].type = "signal"
    /\ handling'["portfolio"] = RemoveAt(handling["portfolio"], i)

\* the order notional of a BUY signal exceeds max_position_pct of the total
\* value, or with the position value max_total_position_pct of it
OverCap(ev) ==
    LET prices == [s \in {ev.sym} |-> ev.price]
        total  == TotalValue(prices)
        amount == RatOfInt(cfg.default_position_size)
    IN  \/ RatGtPct(amount, total, cfg.max_position_pct)
        \/ RatGtPct(RatAdd(PositionValue(prices), amount), total,
                    cfg.max_total_position_pct)

\* C17: on_signal of a BUY signal over one of the exposure caps changes neither
\* cash, frozen_cash, positions nor orders and publishes nothing; and every
\* event put accepted and the dispatcher has finished with, rejected signals
\* included, is counted in events_dispatched.
C17_ExposureCaps ==
    /\ [][ \A i \in 1..MaxThreads :
             (SignalHandled(i) /\ handling["portfolio"][i].dir = "BUY"
                /\ OverCap(handling["portfolio"][i])) =>
                 /\ UNCHANGED <<cash, frozen_cash, positions, orders>>
                 /\ UNCHANGED <<queue, nput, active_orders>> ]_vars
    /\ [](~cur.busy => stats.events_dispatched = Len(accepted) - Len(queue))

\* with X held, a BUY signal for Y that only the total cap stops has been
\* handled and counted, and the account has its one order and one position
C17_Witness ==
    /\ cfg = TotalCapConfig
    /\ positions["X"].held
    /\ ~positions["Y"].held
    /\ handling["portfolio"] = <<>>
    /\ Len(delivered["portfolio"]) = 3
    /\ delivered["portfolio"][3].type = "signal"
    /\ delivered["portfolio"][3].dir = "BUY"
    /\ delivered["portfolio"][3].sym = "Y"
    /\ delivered["portfolio"][3].price = 3000
    /\ Len(orders) = 1
    /\ stats.events_dispatched = 3
    /\ AvailableCash >= cfg.default_position_size

\* C18: on_signal of a BUY signal that available_cash does not cover changes
\* neither cash, frozen_cash, positions nor orders and publishes nothing, and
\* the reservations of the BUY orders not yet filled never exceed cash.
C18_CashGate ==
    /\ [][ \A i \in 1..MaxThreads :
             (SignalHandled(i) /\ handling["portfolio"][i].dir = "BUY"
                /\ AvailableCash < cfg.default_position_size) =>
                 /\ UNCHANGED <<cash, frozen_cash, positions, orders>>
                 /\ UNCHANGED <<queue, nput>> ]_vars
    /\ [](OutstandingReserved(Len(orders)) <= cash)

\* floor(notional / price / 100) * 100, shares of a notional in cents
LotQuantity(notional, price) == ((notional \div price) \div 100) * 100

\* C19: every BUY order has the quantity floor(notional / price / 100) * 100,
\* a positive multiple of 100, and on_signal of a BUY signal sized below 100
\* shares records no order and freezes no cash.
C19_LotSizing ==
    /\ [](\A o \in 1..Len(orders) : orders[o].side = "BUY" =>
             /\ orders[o].quantity >= 100
             /\ orders[o].quantity % 100 = 0
             /\ orders[o].quantity =
                   LotQuantity(cfg.default_position_size, orders[o].price))
    /\ [][ \A i \in 1..MaxThreads :
             (SignalHandled(i) /\ handling["portfolio"][i].dir = "BUY"
                /\ LotQuantity(cfg.default_position_size,
                               handling["portfolio"][i].price) < 100) =>
                 UNCHANGED <<orders, frozen_cash, cash>> ]_vars

\* a BUY at 30.00 was sized down to 300 shares, and a BUY at 200.00, sized
\* to no share at all, has been handled without an order or a reservation
C19_Witness ==
    /\ Len(orders) = 1
    /\ orders[1].side = "BUY"
    /\ orders[1].price = 3000
    /\ orders[1].quantity = 300
    /\ handling["portfolio"] = <<>>
    /\ Len(delivered["portfolio"]) = 2
    /\ delivered["portfolio"][2].dir = "BUY"
    /\ delivered["portfolio"][2].price = 20000
    /\ frozen_cash = 900900

\* C20: a step that records a SELL order starts from a non-empty position in
\* the symbol and gives the order the whole quantity held, and a step that
\* applies a SELL fill leaves no position in the symbol.
C20_SellHandling ==
    [][ /\ (Len(orders') = Len(orders) + 1
              /\ orders'[Len(orders')].side = "SELL") =>
               LET o == orders'[Len(orders')]
               IN  /\ positions[o.symbol].held
                   /\ positions[o.symbol].quantity # 0
                   /\ o.quantity = positions[o.symbol].quantity
        /\ (Len(fills') = Len(fills) + 1
              /\ fills'[Len(fills')].dir = "SELL") =>
               ~positions'[fills'[Len(fills')].sym].held ]_vars

\* is_valid() of the Signal a signal event describes is false
InvalidSignal(ev) ==
    ev.sym = "" \/ ev.strength < 0 \/ ev.strength > 100 \/ ev.price <= 0

\* C21: on_signal of a signal event with an empty symbol, a strength outside
\* [0, 1] or a price that is not positive changes neither cash, frozen_cash,
\* positions nor orders and publishes nothing.
C21_InvalidSignalDropped ==
    [][ \A i \in 1..MaxThreads :
          (SignalHandled(i) /\ InvalidSignal(handling["portfolio"][i])) =>
              /\ UNCHANGED <<cash, frozen_cash, positions, orders>>
              /\ UNCHANGED <<queue, nput, active_orders>> ]_vars

(***************************************************************************)
(* Claims settled under SpecBacktest                                       *)
(***************************************************************************)
\* no event is queued anywhere and no handler is inside a callback
Quiescent ==
    /\ queue = <<>>
    /\ ~cur.busy
    /\ \A h \in DOMAIN hq : hq[h] = <<>> /\ handling[h] = <<>>

\* C7: the driver moves the data cursor to another day only in a state where
\* the central queue and every handler queue are empty and no handler is
\* inside a callback.
C7_AdvanceWhenQuiescent ==
    [][ (current_time # 0 /\ current_time' # current_time) => Quiescent ]_vars

\* C8: the newest bar a strategy got from the data handler while it handled
\* a market event is not younger than the day of that event.
C8_NoLookAhead ==
    \A s \in DOMAIN lastRead : lastRead[s].newest <= lastRead[s].day

(***************************************************************************)
(* Claims settled under SpecRun                                            *)
(***************************************************************************)
\* run() has returned True and every thread has left its loop
RunFinished ==
    /\ backtest.result = "true"
    /\ dispatcher = 0
    /\ \A h \in DOMAIN nthreads : nthreads[h] = 0

\* the signal, order and fill events of a queue
Tradable(q) ==
    {k \in 1..Len(q) : q[k].type \in {"signal", "order", "fill"}}

\* C22: when run() has returned, no signal, order or fill event is left in
\* the central queue or in a handler queue, and every order the portfolio
\* manager recorded has been executed and its fill applied.
C22_Lossless ==
    RunFinished =>
        /\ Tradable(queue) = {}
        /\ \A h \in DOMAIN hq : Tradable(hq[h]) = {}
        /\ \A o \in 1..Len(orders) : FillApplied(o)

\* the range of the setup holds no trading day
NoTradingDay(r) == \A d \in r.start_date..r.end_date : ~IsTradingDay(d)

\* C26: a run whose universe is empty or whose date range holds no trading
\* day goes through _start_components and _stop_components, returns True
\* and leaves no trade.
C26_EmptyRunCompletes ==
    (driverPc = "done"
       /\ backtest.start_date < backtest.end_date
       /\ (backtest.universe = {} \/ NoTradingDay(backtest))) =>
        /\ backtest.result = "true"
        /\ stopIdx = Len(Registrations) + 2
        /\ Len(trades) = 0

\* the orders of the run in which every event is handled to its end before
\* the driver, the client or _stop_components takes the next step: with the
\* account and the prices of SpecRun every BUY signal gives one order
SequentialOrders ==
    Cardinality({k \in 1..Len(accepted) :
                    accepted[k].type = "signal" /\ accepted[k].dir = "BUY"})

\* C23: the outcome of a run is the same for every scheduling, so it is the
\* outcome of the sequential scheduling: when run() has returned, the orders
\* are those of the accepted signals, and the bars a strategy read for a
\* market event are the bars up to the day of that event.
C23_Deterministic ==
    RunFinished =>
        /\ Len(orders) = SequentialOrders
        /\ \A s \in DOMAIN lastRead :
              lastRead[s].day # 0 =>
                  lastRead[s].newest = NewestBar(lastRead[s].day)

(***************************************************************************)
(* Claims settled under SpecOrder                                          *)
(***************************************************************************)
\* C24: whatever fill_order calls an Order has seen, 0 <= filled_quantity <=
\* quantity and it is FILLED only with filled_quantity = quantity; the latest
\* call, for fewer shares than remained, left it PARTIALLY_FILLED, for
\* exactly the remaining shares FILLED, and for a quantity <= 0 or above
\* the remaining shares it raised and left the order as it was.
C24_FillInvariants ==
    LET o == unitOrder.order
        b == unitOrder.before
        q == unitOrder.q
        remaining == b.quantity - b.filled_quantity
    IN  /\ 0 <= o.filled_quantity
        /\ o.filled_quantity <= o.quantity
        /\ o.status = "FILLED" => o.filled_quantity = o.quantity
        /\ unitOrder.calls > 0 =>
              IF q <= 0 \/ q > remaining
              THEN unitOrder.raised /\ o = b
              ELSE /\ ~unitOrder.raised
                   /\ o.filled_quantity = b.filled_quantity + q
                   /\ o.total_filled_amount
                         = b.total_filled_amount + q * unitOrder.p
                   /\ o.status = IF q = remaining THEN "FILLED"
                                 ELSE "PARTIALLY_FILLED"

\* a partial fill, then an attempt above the remaining shares, then the fill
\* of exactly the remaining shares
C24_Witness ==
    /\ unitOrder.calls = 3
    /\ unitOrder.order.status = "FILLED"
    /\ unitOrder.before.status = "PARTIALLY_FILLED"
    /\ unitOrder.order.quantity = 3

C27_NoOverlap ==
    Cardinality({i \in 1..Len(timer.threads) :
                    timer.threads[i] = "callback"}) <= 1

(***************************************************************************)
(* Claims settled under SpecStrategy                                       *)
(***************************************************************************)
\* a worker of strategy sid returns from handle_event for the market event
\* at place i
StrategyHandled(sid, i) ==
    /\ i \in 1..Len(handling[sid])
    /\ handling[sid][i].type = "market"
    /\ handling'[sid] = RemoveAt(handling[sid], i)

\* the last call on the strategy was deactivate()
Deactivated(sid) == strategies[sid].last = "deactivate"

RemainsRegistered(sid) ==
    \E k \in 1..Len(handlers["market"]) : handlers["market"][k] = sid

ActivationGate ==
    \A sid \in ManagedStrategies, i \in 1..MaxThreads :
        StrategyHandled(sid, i) =>
            IF Deactivated(sid)
            THEN /\ UNCHANGED <<putVars, lastRead>>
                 /\ strategies'[sid].calls = strategies[sid].calls
                 /\ strategies'[sid].discarded = strategies[sid].discarded + 1
            ELSE strategies'[sid].discarded = strategies[sid].discarded

\* C28: a deactivated strategy consumes and discards every market event it
\* receives without calling generate_signals or publishing anything, while it
\* stays registered for market events and in the StrategyManager; an
\* activated strategy passes its market events on to on_market_event; and
\* get_statistics counts as active exactly the strategies whose last call was
\* not deactivate()
C28_ActivationGate ==
    /\ [](\A sid \in ManagedStrategies : RemainsRegistered(sid))
    /\ [](GetStatistics(ManagedStrategies) =
            [total_strategies |-> 1,
             active_strategies |->
                Cardinality({sid \in ManagedStrategies : ~Deactivated(sid)})])
    /\ [][ActivationGate]_vars

\* an ENTRY strategy has discarded a market event while deactivated, and
\* after a later activate() has called generate_signals again
C28_Witness ==
    /\ strategies["entry"].discarded > 0
    /\ strategies["entry"].epoch >= 1
    /\ strategies["entry"].last = "activate"

\* the symbols whose position was opened by strategy sid
OpenedBy(sid) ==
    {x \in Symbols : positions[x].held /\ positions[x].strategy_id = sid}

ExpectedWatch(sid) ==
    IF sid = "entry" THEN {"X"} \ OpenedBy(sid)
    ELSE IF sid = "exit" THEN OpenedBy(sid)
    ELSE {x \in Symbols : positions[x].held}

WatchPolicy ==
    \A sid \in ManagedStrategies, i \in 1..MaxThreads :
        StrategyHandled(sid, i) =>
            LET ev == handling[sid][i]
                st == strategies[sid]
            IN  /\ strategies'[sid].calls > st.calls
                        => ev.sym \in ExpectedWatch(sid)
                /\ ev.sym \notin ExpectedWatch(sid)
                        => /\ UNCHANGED putVars
                           /\ strategies'[sid].calls = st.calls
                /\ ( /\ ev.sym \in ExpectedWatch(sid)
                     /\ ~Deactivated(sid)
                     /\ strategies'[sid].errors = st.errors )
                        => strategies'[sid].calls = st.calls + 1

\* C29: at each market event a strategy handles, generate_signals is called
\* only for a symbol of the watch set of its type (ENTRY: the universe minus
\* the symbols whose position this strategy opened; EXIT: the symbols whose
\* position this strategy opened; UNIVERSAL_STOP: every symbol held), it is
\* called for every such symbol when the strategy is active and its walk of
\* the positions is not interrupted, and an event for a symbol outside the
\* watch set publishes nothing
C29_WatchPolicy == [][WatchPolicy]_vars

\* X is held in a position the EXIT strategy opened; the EXIT strategy
\* ignored X before it was held and evaluated it afterwards
C29_Witness ==
    /\ positions["X"].held
    /\ positions["X"].strategy_id = "exit"
    /\ strategies["exit"].calls > 0
    /\ strategies["exit"].ignored > 0

(***************************************************************************)
(* Claims settled under SpecCross                                          *)
(***************************************************************************)
\* the closes 10.0 twenty times and then 10.1, 10.2, 10.3, 10.4, 10.5
GoldenCrossCloses == FlatCloses \o <<1010, 1020, 1030, 1040, 1050>>

\* C30: when the 25 bars of the golden-cross scenario have been fed, the
\* ENTRY strategy has found and published exactly one BUY signal, on bar 25,
\* and the one order made for it is for 4700 shares at 10.50
C30_GoldenCross ==
    (feed.closes = GoldenCrossCloses /\ feed.fed = Len(feed.closes)) =>
        /\ feed.signals = {25}
        /\ feed.emitted = {25}
        /\ feed.orders = <<[bar |-> 25, price |-> 1050, quantity |-> 4700]>>

(***************************************************************************)
(* Claims on the restart of the engine, settled under SpecRestartFair      *)
(***************************************************************************)
\* the k-th accepted event has left every queue and no handler is inside
\* handle_event with it
Settled(k) ==
    /\ k <= Len(accepted)
    /\ LET e == accepted[k]
       IN  /\ \A i \in 1..Len(queue) : queue[i] # e
           /\ ~(cur.busy /\ cur.ev = e)
           /\ \A h \in DOMAIN hq :
                 /\ \A i \in 1..Len(hq[h]) : hq[h][i] # e
                 /\ \A i \in 1..Len(handling[h]) : handling[h][i] # e

\* C39: after start(), stop(), start() every event that put accepts after the
\* second start() is eventually dispatched and handled, and there is never a
\* second dispatcher nor a second worker of a handler.
C39_RestartDelivers ==
    /\ \A k \in 1..MaxLifeEvents :
          (restart.calls = 1 /\ restart.accepted < k /\ k <= Len(accepted))
             ~> Settled(k)
    /\ [](restart.calls = 1 =>
             /\ dispatcher <= 1
             /\ \A h \in DOMAIN hq : nthreads[h] <= 1)

(***************************************************************************)
(* Claims on the reservations of orders that never fill, under SpecTrade   *)
(***************************************************************************)
\* the cash reserved when the BUY orders 1..n were emitted, summed over those
\* that have not ended CANCELLED or REJECTED
RECURSIVE LiveReserved(_)
LiveReserved(n) ==
    IF n = 0 THEN 0
    ELSE LiveReserved(n - 1)
           + (IF orders[n].side = "BUY"
                 /\ orders[n].status \notin {"CANCELLED", "REJECTED"}
              THEN RequiredCash(orders[n].quantity, orders[n].price)
              ELSE 0)

\* C38: as long as no fill has been applied, frozen_cash is the sum of the
\* reservations of the BUY orders that have not ended CANCELLED or REJECTED:
\* the reservation of an order that ends without a fill is released.
C38_ReleasedWhenEnded ==
    fills = <<>> => frozen_cash = LiveReserved(Len(orders))

(***************************************************************************)
(* Claims on the life of the dedup keys, settled under SpecTrade           *)
(***************************************************************************)
\* C40: a signal whose key already has an order records no further order,
\* whatever fills were applied in between; a recorded key stays recorded (the
\* set stays below its limit in these runs); and a step that records no order,
\* such as a signal rejected by the risk gate or by sizing, records no key.
C40_KeysDoNotExpire ==
    [][ /\ Len(orders') > Len(orders) =>
             \A k \in 1..Len(orders) :
                OrderKey(orders[k]) # OrderKey(orders'[Len(orders')])
        /\ recent_signals \subseteq recent_signals'
        /\ Len(orders') = Len(orders) => recent_signals' = recent_signals
      ]_vars

(***************************************************************************)
(* Claims on the stacking of BUY orders, settled under SpecStack           *)
(***************************************************************************)
\* the BUY orders of a symbol that are neither filled nor ended without a fill
UnfilledBuys(sym) ==
    {i \in 1..Len(orders) :
        /\ orders[i].symbol = sym
        /\ orders[i].side = "BUY"
        /\ ~(\E k \in 1..Len(fills) : fills[k].oid = i)
        /\ orders[i].status \notin {"CANCELLED", "REJECTED"}}

\* C37: per symbol at most one BUY order is unfilled or reflected in a held
\* position, and no BUY fill is applied after another BUY fill of the symbol
\* without a SELL fill of it in between.
C37_NoStacking ==
    \A sym \in Symbols :
       /\ Cardinality(UnfilledBuys(sym))
            + (IF positions[sym].held /\ ~IsEmpty(positions[sym]) THEN 1 ELSE 0)
            <= 1
       /\ \A k, l \in 1..Len(fills) :
             (k < l /\ fills[k].sym = sym /\ fills[l].sym = sym
                /\ fills[k].dir = "BUY" /\ fills[l].dir = "BUY")
             => \E m \in (k + 1)..(l - 1) :
                   fills[m].sym = sym /\ fills[m].dir = "SELL"

(***************************************************************************)
(* Claims on the executor, settled under SpecTrade                         *)
(***************************************************************************)
\* execute_order has been called for the order and has returned
Executed(oid) ==
    /\ \E k \in 1..Len(delivered["exec"]) :
          delivered["exec"][k].type = "order" /\ delivered["exec"][k].oid = oid
    /\ \A k \in 1..Len(handling["exec"]) : handling["exec"][k].oid # oid

\* the FILL events for the order that put has accepted
FillEventsFor(oid) ==
    {k \in 1..Len(accepted) :
        accepted[k].type = "fill" /\ accepted[k].oid = oid}

\* C33: outside _simulate_fill, active_orders holds only SUBMITTED or
\* PARTIALLY_FILLED orders; when execute_order has returned, exactly one FILL
\* event for the order's full quantity has been published, the order is
\* FILLED and it is not in active_orders.  (The second part is stated for
\* orders whose fill the client has not published itself, while cancel_order
\* was not called.)
C33_ExecutionPath ==
    \A oid \in 1..Len(orders) :
        /\ (oid \in active_orders /\ execStage[oid].pc # "filled") =>
              orders[oid].status \in {"SUBMITTED", "PARTIALLY_FILLED"}
        /\ ( /\ Executed(oid)
             /\ <<"fill", oid>> \notin published
             /\ ncancel = 0 )
              => /\ orders[oid].status = "FILLED"
                 /\ oid \notin active_orders
                 /\ Cardinality(FillEventsFor(oid)) = 1
                 /\ \A k \in FillEventsFor(oid) :
                       accepted[k].qty = orders[oid].quantity

\* C34: cancel_order(oid) returns True exactly for an order in active_orders
\* that is SUBMITTED or PARTIALLY_FILLED, which it makes CANCELLED and takes
\* out of active_orders, and otherwise changes nothing; and a CANCELLED
\* order stays CANCELLED and no FILL event is published for it afterwards
C34_Cancel ==
    [][ \A oid \in 1..Len(orders) :
           /\ (ncancel' = ncancel + 1 /\ lastCancel'.oid = oid) =>
                 IF oid \in active_orders
                      /\ orders[oid].status \in {"SUBMITTED", "PARTIALLY_FILLED"}
                 THEN /\ lastCancel'.ret
                      /\ orders'[oid].status = "CANCELLED"
                      /\ oid \notin active_orders'
                 ELSE /\ ~lastCancel'.ret
                      /\ UNCHANGED <<orders, active_orders>>
           /\ orders[oid].status = "CANCELLED" =>
                 /\ orders'[oid].status = "CANCELLED"
                 /\ \A k \in (Len(accepted) + 1)..Len(accepted') :
                       ~(accepted'[k].type = "fill" /\ accepted'[k].oid = oid
                         /\ <<"fill", oid>> \notin published') ]_vars

(***************************************************************************)
(* Claims settled under SpecPosition                                       *)
(***************************************************************************)
\* the cost basis the last call of update_position had to leave
ExpectedAvgPrice(old, dq, p) ==
    LET newq == old.quantity + dq
    IN  IF dq = 0 THEN old.avg_price
        ELSE IF (old.quantity >= 0 /\ dq > 0) \/ (old.quantity <= 0 /\ dq < 0)
        THEN Rat(Abs(old.quantity * old.avg_price.n + dq * p * old.avg_price.d),
                 Abs(newq) * old.avg_price.d)
        ELSE IF (old.quantity > 0 /\ newq < 0) \/ (old.quantity < 0 /\ newq > 0)
        THEN RatOfInt(p)
        ELSE old.avg_price

\* C31: after update_position(dq, p) the quantity is old_q + dq; a position
\* increased in its own direction or opened from zero has avg_price
\* |old_q * avg_price + dq * p| / |old_q + dq|, a flipped position has
\* avg_price p, a position that is only reduced (also to zero) keeps its
\* avg_price; and after buys only from an empty position avg_price is
\* sum(q_i * p_i) / sum(q_i)
C31_CostBasis ==
    position.calls > 0 =>
        /\ position.pos.quantity = position.before.quantity + position.change
        /\ position.pos.avg_price =
              ExpectedAvgPrice(position.before, position.change, position.price)
        /\ position.buys_only =>
              position.pos.avg_price = Rat(position.paid, position.bought)

\* three buys at prices that differ, from an empty position
C31_Witness ==
    /\ position.calls = 3
    /\ position.buys_only
    /\ position.price # position.before.avg_price.n
    /\ position.before.avg_price.d > 1

(***************************************************************************)
(* Claims settled under SpecSnapshot                                       *)
(***************************************************************************)
\* C32: a strategy worker's read of the positions never fails and never
\* happens while update_position is part-way through a fill: the keys it
\* sees are those before or those after the fill, and a position it reads
\* is in the dict with the quantity it had before or has after the fill
C32_SnapshotReads ==
    /\ snap.seen.kind # "error"
    /\ ~snap.seen.midway
    /\ snap.seen.kind = "keys" =>
          snap.seen.keys \in {snap.seen.before, snap.seen.after}
    /\ (snap.seen.kind = "position" /\ snap.seen.in_dict) =>
          snap.seen.quantity \in {snap.seen.qbefore, snap.seen.qafter} \ {0}

(***************************************************************************)
(* Claims settled under SpecStopFair                                       *)
(***************************************************************************)
\* C35: a call of EventEngine.stop returns, and then the running flag of
\* the dispatcher and of every handler is cleared
C35_StopTerminates ==
    /\ (stopIdx > 0) ~> (stopCall = "returned")
    /\ [](stopCall = "returned" =>
            ~engineRunning /\ \A h \in DOMAIN hq : ~running[h])

(***************************************************************************)
(* Claims settled under SpecRegister                                       *)
(***************************************************************************)
\* the dispatch of the accepted event e is over
DispatchOver(e) ==
    /\ \A k \in 1..Len(queue) : queue[k] # e
    /\ ~(cur.busy /\ cur.ev = e)

\* how often handler g was given the event e
TimesGiven(g, e) ==
    Cardinality({k \in 1..Len(delivered[g]) : delivered[g][k] = e})
        + Cardinality({k \in 1..Len(hq[g]) : hq[g][k] = e})

\* registered at construction: slow and fast for market, fast for signal
RegisteredAtStart(t, g) == t = "market" \/ g = "fast"

\* C36: no dispatch fails, and while no handler queue was full, a handler
\* that was registered for a type before the engine started and was never
\* unregistered from it has been
\* given every event of the type whose dispatch is over exactly once,
\* whatever other handlers were registered or unregistered meanwhile
C36_StableDelivery ==
    /\ stats.dispatch_errors = 0
    /\ stats.events_dropped = 0 =>
          \A t \in {"market", "signal"}, g \in BusHandlers :
              (RegisteredAtStart(t, g) /\ <<t, g>> \notin regs.removed) =>
                  \A k \in 1..Len(accepted) :
                      (accepted[k].type = t /\ DispatchOver(accepted[k])) =>
                          TimesGiven(g, accepted[k]) = 1

====
